---- MODULE Spec2Model ----
(***************************************************************************)
(* State-machine model of the awrtc signaling relay: the peer session      *)
(* (SignalingPeer), the peer pool (DefaultPeerPool) and the cleanup part   *)
(* of the protocol session (BinaryWebsocketProtocol).  The server front    *)
(* end (WebsocketNetworkServer, TokenManager) admits sockets and routes    *)
(* them to the pool of their application path.                             *)
(*                                                                         *)
(* Node runs every handler to completion on one thread, so one action is   *)
(* one whole handler.  Handlers call each other and mutate several objects *)
(* in sequence; they are written as operators from a state record to a     *)
(* state record and composed in call order.  An action commits the record  *)
(* the handler leaves behind.                                              *)
(***************************************************************************)
EXTENDS Integers, Sequences, FiniteSets, TLC

\* ---------------------------------------------------------------- bounds
NumPeers == 3
MaxIncoming == 2
MaxOps == 6
\* handlers run by the server front end and its sessions
MaxServerOps == 5

\* ------------------------------------------------------ program constants
FirstIncomingId == 16384
maxAddressLength == 256
INVALID == -1

\* ------------------------------------------------------------ input sets
Peers == 1..NumPeers
Addrs == {"a", "b"}
\* the addresses of the pool's boundary tests: '', 'a'.repeat(256), 'a'.repeat(257)
emptyAddress == ""
maxLengthAddress == "aaaaaaaaaaaaaaaaaaaaaaaaaaaaaaaaaaaaaaaaaaaaaaaaaaaaaaaaaaaaaaaaaaaaaaaaaaaaaaaaaaaaaaaaaaaaaaaaaaaaaaaaaaaaaaaaaaaaaaaaaaaaaaaaaaaaaaaaaaaaaaaaaaaaaaaaaaaaaaaaaaaaaaaaaaaaaaaaaaaaaaaaaaaaaaaaaaaaaaaaaaaaaaaaaaaaaaaaaaaaaaaaaaaaaaaaaaaaaaaaaaaaaaaaaaaaaaaa"
tooLongAddress == "aaaaaaaaaaaaaaaaaaaaaaaaaaaaaaaaaaaaaaaaaaaaaaaaaaaaaaaaaaaaaaaaaaaaaaaaaaaaaaaaaaaaaaaaaaaaaaaaaaaaaaaaaaaaaaaaaaaaaaaaaaaaaaaaaaaaaaaaaaaaaaaaaaaaaaaaaaaaaaaaaaaaaaaaaaaaaaaaaaaaaaaaaaaaaaaaaaaaaaaaaaaaaaaaaaaaaaaaaaaaaaaaaaaaaaaaaaaaaaaaaaaaaaaaaaaaaaaaa"
\* every key the listeners dictionary is asked for
AllAddrs == Addrs \cup {emptyAddress, maxLengthAddress, tooLongAddress}
\* addresses a client of the relay asks to listen on
ListenAddrs == Addrs \cup {tooLongAddress}
\* addresses the pool is driven with on its own
PoolAddrs == {emptyAddress, "a", maxLengthAddress, tooLongAddress}
\* ids a client puts into NewConnection / Disconnected / message frames.
\* Both are non-negative, so a JS object enumerates all keys in ascending
\* numeric order.
ClientIds == {1, 16384}
Payloads == {"x"}
\* the sessions whose heartbeat ticks are explored
TickPeers == {1}

\* JS null (an address, an event payload) and undefined (a connection id)
Null == "<null>"
Undefined == -2

VARIABLES
    mState,                     \* SignalingPeer.mState
    mConnections,               \* SignalingPeer.mConnections (pair map)
    mNextIncomingConnectionId,  \* SignalingPeer.mNextIncomingConnectionId
    mOwnAddress,                \* SignalingPeer.mOwnAddress
    mPoolConnections,           \* PeerPool.mConnections (session list)
    mListeners,                 \* PeerPool.mListeners
    mAddressSharing,            \* DefaultPeerPool.mAddressSharing
    readyState,                 \* mEndPoint.ws.readyState
    mIsDisposed,                \* BinaryWebsocketProtocol.mIsDisposed
    mPingInterval,              \* the heartbeat timer is running
    mPongReceived,              \* BinaryWebsocketProtocol.mPongReceived
    sent,                       \* events handed to Protocol.send by the last handler
    onCleanupCalls,             \* number of controller.onCleanup calls per session
    assigned,                   \* ids handed out by nextConnectionId, per session, in order
    calls,                      \* calls between pool and sessions during the last handler
    threw,                      \* the last handler ended in an exception
    protocolCalls,              \* what the protocol sessions raised to their listeners and
                                \* asked of their sockets during the last handler
    written,                    \* events written to each socket during the last handler
    metaWritten,                \* version and heartbeat frames written to each socket
                                \* during the last handler
    mRemoteProtocolVersion,     \* BinaryWebsocketProtocol.mRemoteProtocolVersion
    closeFrameReceived,         \* the client's close frame arrived on the socket
    returned,                   \* value returned by the last isAddressAvailable call
    tracing,                    \* the message events written to the sockets are recorded
    delivered,                  \* message events written to each session's socket, each
                                \* with the number of the handler that wrote it (if tracing)
    pairing,                    \* per session and pair-map key: the key the other side got
                                \* in the same pair of accept calls
    adminToken,                 \* TokenManager.adminToken (Null: none configured)
    userTokens,                 \* own keys of TokenManager.userTokens
    mPool,                      \* WebsocketNetworkServer.mPool, by application path
    mController,                \* SignalingPeer.mController: the path of the session's
                                \* pool in mPool (Null: the pool on its own)
    request,                    \* the upgrade request each socket arrived with
    ops,                        \* number of handlers run so far
    lastOp                      \* the handler that ran last, with its inputs

vars == <<mState, mConnections, mNextIncomingConnectionId, mOwnAddress,
          mPoolConnections, mListeners, mAddressSharing, readyState,
          mIsDisposed, mPingInterval, mPongReceived, sent, onCleanupCalls,
          assigned, calls, threw, protocolCalls, written, metaWritten,
          mRemoteProtocolVersion,
          closeFrameReceived,
          returned, tracing,
          delivered, pairing, adminToken, userTokens, mPool, mController,
          request, ops, lastOp>>

\* ------------------------------------------------------------- utilities
EmptyMap == [x \in {} |-> 0]
Put(m, k, v) == [x \in (DOMAIN m) \cup {k} |-> IF x = k THEN v ELSE m[x]]
Del(m, k) == [x \in (DOMAIN m) \ {k} |-> m[x]]
Min(S) == CHOOSE x \in S : \A y \in S : x <= y
IndexOf(seq, e) ==
    IF \E i \in 1..Len(seq) : seq[i] = e
    THEN Min({i \in 1..Len(seq) : seq[i] = e})
    ELSE 0
Splice(seq, i) == [k \in 1..(Len(seq) - 1) |-> IF k < i THEN seq[k] ELSE seq[k + 1]]
Count(seq, e) == Cardinality({i \in 1..Len(seq) : seq[i] = e})

NetworkEvent(type, id, data) == [Type |-> type, ConnectionId |-> id, Data |-> data]

\* the state record the handlers work on
Cur ==
    [mState |-> mState, mConnections |-> mConnections,
     mNextIncomingConnectionId |-> mNextIncomingConnectionId,
     mOwnAddress |-> mOwnAddress, mPoolConnections |-> mPoolConnections,
     mListeners |-> mListeners, mAddressSharing |-> mAddressSharing,
     readyState |-> readyState, mIsDisposed |-> mIsDisposed,
     mPingInterval |-> mPingInterval, mPongReceived |-> mPongReceived,
     sent |-> [p \in Peers |-> <<>>], onCleanupCalls |-> onCleanupCalls,
     assigned |-> assigned, calls |-> <<>>, threw |-> FALSE, returned |-> FALSE,
     pairing |-> pairing, delivered |-> delivered, tracing |-> tracing,
     protocolCalls |-> <<>>, written |-> [p \in Peers |-> <<>>],
     metaWritten |-> [p \in Peers |-> <<>>],
     mRemoteProtocolVersion |-> mRemoteProtocolVersion,
     closeFrameReceived |-> closeFrameReceived,
     now |-> ops + 1]

\* ------------------------------------------------------ NetworkEvent codec
\* NetEventType, by name
NetEventType ==
    [Invalid |-> 0, UnreliableMessageReceived |-> 1, ServerInitialized |-> 2,
     ServerInitFailed |-> 3, ServerClosed |-> 4, NewConnection |-> 5,
     ConnectionFailed |-> 6, Disconnected |-> 7, ReliableMessageReceived |-> 8,
     FatalError |-> 100, Warning |-> 101, Log |-> 102,
     MetaVersion |-> 103, MetaHeartbeat |-> 104]

\* A frame: the bytes before the payload (type; then the version of a
\* MetaVersion frame, or payload tag, 16-bit little-endian connection id and,
\* with a payload, its 32-bit little-endian length) and the payload, which
\* is kept as the string it encodes (two bytes per code unit).
Frame(bytes, data) == [bytes |-> bytes, data |-> data]

Int16LE(id) == LET u == (id + 65536) % 65536 IN << u % 256, u \div 256 >>
UInt32LE(n) == << n % 256, (n \div 256) % 256, (n \div 65536) % 256, n \div 16777216 >>

toByteArray(evt) ==
    IF evt.Data = Null
    THEN Frame(<< NetEventType[evt.Type], 0 >> \o Int16LE(evt.ConnectionId), Null)
    ELSE Frame(<< NetEventType[evt.Type], 1 >> \o Int16LE(evt.ConnectionId)
                  \o UInt32LE(2 * Len(evt.Data)), evt.Data)

\* ------------------------------------------------- BinaryWebsocketProtocol
PROTOCOL_VERSION == 2

ProtocolCall(fn, on, code) == [fn |-> fn, on |-> on, code |-> code]
Did(st, c) == [st EXCEPT !.protocolCalls = Append(@, c)]

\* ws.send of a frame the protocol built itself: data is written to an open
\* socket only; on a socket that is closing or closed the call returns
\* without writing
internalSend(st, p, msg) ==
    IF st.readyState[p] = "OPEN"
    THEN [st EXCEPT !.metaWritten[p] = Append(@, msg)]
    ELSE st

\* variant: the state of the socket is not looked at
send_NoGate(st, p, evt) ==
    IF evt.ConnectionId = Undefined
    THEN [st EXCEPT !.threw = TRUE]
    ELSE [st EXCEPT !.written[p] = Append(@, evt)]

\* send: an event is written only to an open socket, after it was formatted
\* for the log; evt.ConnectionId.id of an undefined id is a TypeError
send(st, p, evt) ==
    IF st.readyState[p] = "OPEN"
    THEN IF evt.ConnectionId = Undefined
         THEN [st EXCEPT !.threw = TRUE]
         ELSE [st EXCEPT
                  !.written[p] = Append(@, evt),
                  !.delivered[p] =
                      IF st.tracing /\ evt.Type \in {"ReliableMessageReceived",
                                                        "UnreliableMessageReceived"}
                      THEN Append(@, [seq |-> st.now, evt |-> evt])
                      ELSE @]
    ELSE st

\* ---------------------------------------------------------- SignalingPeer
\* variant: no state gate at all
sendToClient_NoGate(st, self, evt) ==
    [st EXCEPT !.sent[self] = Append(@, evt)]

\* variant: the gate admits Disconnecting
sendToClient_AdmitDisconnecting(st, self, evt) ==
    IF st.mState[self] \in {"Connected", "Disconnecting"}
    THEN [st EXCEPT !.sent[self] = Append(@, evt)]
    ELSE st

sendToClient(st, self, evt) ==
    IF st.mState[self] = "Connected"
    THEN send([st EXCEPT !.sent[self] = Append(@, evt)], self, evt)
    ELSE st

\* variant: the counter is not advanced
nextConnectionId_NoIncrement(st, self) ==
    [result |-> st.mNextIncomingConnectionId[self], st |-> st]

\* returns the id and the state it leaves behind
nextConnectionId(st, self) ==
    [result |-> st.mNextIncomingConnectionId[self],
     st |-> [st EXCEPT !.mNextIncomingConnectionId[self] = @ + 1]]

internalAddIncomingPeer(st, self, peer) ==
    LET next == nextConnectionId(st, self)
        id == next.result
        st1 == [next.st EXCEPT !.assigned[self] = Append(@, id),
                               !.mConnections[self] = Put(@, id, peer)]
    IN  sendToClient(st1, self, NetworkEvent("NewConnection", id, Null))

internalAddOutgoingPeer(st, self, peer, id) ==
    LET st1 == [st EXCEPT !.mConnections[self] = Put(@, id, peer)]
    IN  sendToClient(st1, self, NetworkEvent("NewConnection", id, Null))

internalRemovePeer(st, self, id) ==
    LET st1 == [st EXCEPT !.mConnections[self] = Del(@, id),
                          !.pairing[self] = Del(@, id)]
    IN  sendToClient(st1, self, NetworkEvent("Disconnected", id, Null))

\* variant: the first key is returned, whoever it references
findPeerConnectionId_AnyKey(st, self, otherPeer) ==
    IF DOMAIN st.mConnections[self] = {}
    THEN Undefined
    ELSE Min(DOMAIN st.mConnections[self])

\* for..in over integer keys visits them in ascending order: the first hit
\* is the smallest key
findPeerConnectionId(st, self, otherPeer) ==
    LET hits == {k \in DOMAIN st.mConnections[self] : st.mConnections[self][k] = otherPeer}
    IN  IF hits = {} THEN Undefined ELSE Min(hits)

\* record of one pair of accept calls: A got key i and B got key j for it
Paired(st, A, i, B, j) ==
    [st EXCEPT !.pairing = [[@ EXCEPT ![A] = Put(@, i, j)] EXCEPT ![B] = Put(@, j, i)]]

Call(fn, on, other, address, id) ==
    [fn |-> fn, on |-> on, other |-> other, address |-> address, id |-> id]
Called(st, c) == [st EXCEPT !.calls = Append(@, c)]

acceptOutgoingConnection(st, self, otherPeer, newConnectionId) ==
    internalAddOutgoingPeer(
        Called(st, Call("acceptOutgoingConnection", self, otherPeer, Null, newConnectionId)),
        self, otherPeer, newConnectionId)

acceptIncomingConnection(st, self, otherPeer) ==
    internalAddIncomingPeer(
        Called(st, Call("acceptIncomingConnection", self, otherPeer, Null, INVALID)),
        self, otherPeer)

denyConnection(st, self, address, newConnectionId) ==
    sendToClient(Called(st, Call("denyConnection", self, 0, address, newConnectionId)),
                 self, NetworkEvent("ConnectionFailed", newConnectionId, Null))

\* variant: without a reverse entry the own entry is removed all the same
disconnect_RemoveOwn(st, self, connectionId) ==
    IF connectionId \notin DOMAIN st.mConnections[self]
    THEN st
    ELSE LET otherPeer == st.mConnections[self][connectionId]
             idOfOther == findPeerConnectionId(st, otherPeer, self)
         IN  IF idOfOther = Undefined
             THEN internalRemovePeer(st, self, connectionId)
             ELSE internalRemovePeer(internalRemovePeer(st, self, connectionId),
                                     otherPeer, idOfOther)

disconnect(st, self, connectionId) ==
    IF connectionId \notin DOMAIN st.mConnections[self]
    THEN st
    ELSE LET otherPeer == st.mConnections[self][connectionId]
             idOfOther == findPeerConnectionId(st, otherPeer, self)
         IN  IF idOfOther = Undefined
             THEN st
             ELSE internalRemovePeer(internalRemovePeer(st, self, connectionId),
                                     otherPeer, idOfOther)

\* variant: writes to the protocol directly instead of going through sendToClient
acceptListening_Ungated(st, self, address) ==
    [Called(st, Call("acceptListening", self, 0, address, INVALID))
        EXCEPT !.mOwnAddress[self] = address,
               !.sent[self] = Append(@, NetworkEvent("ServerInitialized", INVALID, address))]

acceptListening(st, self, address) ==
    sendToClient([Called(st, Call("acceptListening", self, 0, address, INVALID))
                     EXCEPT !.mOwnAddress[self] = address],
                 self, NetworkEvent("ServerInitialized", INVALID, address))

denyListening(st, self, address) ==
    sendToClient(Called(st, Call("denyListening", self, 0, address, INVALID)),
                 self, NetworkEvent("ServerInitFailed", INVALID, address))

\* -------------------------------------------------------------- PeerPool
\* variant: the entry at the front is spliced out, whoever it is
removeConnection_First(st, client) ==
    IF st.mPoolConnections # <<>>
    THEN [st EXCEPT !.mPoolConnections = Splice(@, 1)]
    ELSE st

\* variant: the index is not tested; splice(-1, 1) takes the last entry out
removeConnection_Unchecked(st, client) ==
    LET index == IndexOf(st.mPoolConnections, client)
    IN  IF index # 0
        THEN [st EXCEPT !.mPoolConnections = Splice(@, index)]
        ELSE IF st.mPoolConnections # <<>>
             THEN [st EXCEPT !.mPoolConnections = Splice(@, Len(@))]
             ELSE st

removeConnection(st, client) ==
    LET index == IndexOf(st.mPoolConnections, client)
    IN  IF index # 0
        THEN [st EXCEPT !.mPoolConnections = Splice(@, index)]
        ELSE st

count(st) == Len(st.mPoolConnections)

\* mListeners[address]; <<>> stands for a missing key (the code never keeps
\* an empty list)
getListenerPeers(st, address) ==
    IF address \in DOMAIN st.mListeners THEN st.mListeners[address] ELSE <<>>

addListener(st, client, address) ==
    [st EXCEPT !.mListeners[address] = Append(@, client)]

\* variant: the listener at the front is spliced out, whoever it is
removeListener_First(st, client, address) ==
    IF getListenerPeers(st, address) = <<>>
    THEN [st EXCEPT !.threw = TRUE]
    ELSE [st EXCEPT !.mListeners[address] = Splice(@, 1)]

\* mListeners[address].indexOf on a missing key is a TypeError
removeListener(st, client, address) ==
    IF getListenerPeers(st, address) = <<>>
    THEN [st EXCEPT !.threw = TRUE]
    ELSE LET index == IndexOf(st.mListeners[address], client)
         IN  IF index # 0
             THEN [st EXCEPT !.mListeners[address] = Splice(@, index)]
             ELSE st

hasAddressSharing(st) == st.mAddressSharing

\* variant: the length of the address is not looked at
isAddressAvailable_NoLengthCheck(st, address) ==
    getListenerPeers(st, address) = <<>> \/ st.mAddressSharing

\* variant: the limit itself is refused
isAddressAvailable_StrictLimit(st, address) ==
    /\ Len(address) < maxAddressLength
    /\ (getListenerPeers(st, address) = <<>> \/ st.mAddressSharing)

isAddressAvailable(st, address) ==
    /\ Len(address) <= maxAddressLength
    /\ (getListenerPeers(st, address) = <<>> \/ st.mAddressSharing)

RECURSIVE acceptJoinFrom(_, _, _, _)
acceptJoinFrom(st, address, client, i) ==
    LET listenerPeers == getListenerPeers(st, address)
    IN  IF i > Len(listenerPeers)
        THEN st
        ELSE LET v == listenerPeers[i]
             IN  IF v # client
                 THEN acceptJoinFrom(
                        Paired(acceptIncomingConnection(
                                   acceptIncomingConnection(st, v, client), client, v),
                               v, st.mNextIncomingConnectionId[v],
                               client, st.mNextIncomingConnectionId[client]),
                        address, client, i + 1)
                 ELSE acceptJoinFrom(st, address, client, i + 1)

acceptJoin(st, address, client) == acceptJoinFrom(st, address, client, 1)

\* variant: the listeners are joined before the request is acknowledged
onListeningRequest_JoinFirst(st, client, address) ==
    IF isAddressAvailable(st, address)
    THEN LET st1 == addListener(st, client, address)
             st2 == IF hasAddressSharing(st1) THEN acceptJoin(st1, address, client) ELSE st1
         IN  acceptListening(st2, client, address)
    ELSE denyListening(st, client, address)

onListeningRequest(st, client, address) ==
    IF isAddressAvailable(st, address)
    THEN LET st1 == acceptListening(addListener(st, client, address), client, address)
         IN  IF hasAddressSharing(st1) THEN acceptJoin(st1, address, client) ELSE st1
    ELSE denyListening(st, client, address)

onStopListening(st, client, address) ==
    removeListener(Called(st, Call("onStopListening", client, 0, address, INVALID)),
                   client, address)

\* variant: with several listeners the first one is taken
onConnectionRequest_FirstOfMany(st, client, address, newConnectionId) ==
    LET listenerPeers == getListenerPeers(st, address)
    IN  IF Len(listenerPeers) >= 1
        THEN LET otherPeer == listenerPeers[1]
             IN  Paired(acceptOutgoingConnection(
                            acceptIncomingConnection(st, otherPeer, client),
                            client, otherPeer, newConnectionId),
                        otherPeer, st.mNextIncomingConnectionId[otherPeer],
                        client, newConnectionId)
        ELSE denyConnection(st, client, address, newConnectionId)

\* variant: the requester is told before the listener
onConnectionRequest_OutgoingFirst(st, client, address, newConnectionId) ==
    LET listenerPeers == getListenerPeers(st, address)
    IN  IF Len(listenerPeers) = 1
        THEN LET otherPeer == listenerPeers[1]
             IN  Paired(acceptIncomingConnection(
                            acceptOutgoingConnection(st, client, otherPeer, newConnectionId),
                            otherPeer, client),
                        otherPeer, st.mNextIncomingConnectionId[otherPeer],
                        client, newConnectionId)
        ELSE denyConnection(st, client, address, newConnectionId)

onConnectionRequest(st, client, address, newConnectionId) ==
    LET listenerPeers == getListenerPeers(st, address)
    IN  IF Len(listenerPeers) = 1
        THEN LET otherPeer == listenerPeers[1]
             IN  Paired(acceptOutgoingConnection(
                            acceptIncomingConnection(st, otherPeer, client),
                            client, otherPeer, newConnectionId),
                        otherPeer, st.mNextIncomingConnectionId[otherPeer],
                        client, newConnectionId)
        ELSE denyConnection(st, client, address, newConnectionId)

onCleanup(st, client) ==
    [removeConnection(Called(st, Call("onCleanup", client, 0, Null, INVALID)), client)
        EXCEPT !.onCleanupCalls[client] = @ + 1]

\* ------------------------------------------- SignalingPeer, client intents
stopListen(st, self) ==
    LET st1 == onStopListening(st, self, st.mOwnAddress[self])
    IN  IF st1.threw
        THEN st1
        ELSE IF st1.mOwnAddress[self] = Null
             THEN st1
             ELSE [sendToClient(st1, self, NetworkEvent("ServerClosed", INVALID, Null))
                      EXCEPT !.mOwnAddress[self] = Null]

\* variant: a session that is already listening is not unregistered first
listen_NoStop(st, self, address) ==
    onListeningRequest(st, self, address)

listen(st, self, address) ==
    LET st1 == IF st.mOwnAddress[self] # Null THEN stopListen(st, self) ELSE st
    IN  IF st1.threw THEN st1 ELSE onListeningRequest(st1, self, address)

connect(st, self, address, newConnectionId) ==
    onConnectionRequest(st, self, address, newConnectionId)

\* variant: the event is handed over twice
forwardMessage_Twice(st, self, senderPeer, msg, reliable) ==
    LET id == findPeerConnectionId(st, self, senderPeer)
        type == IF reliable THEN "ReliableMessageReceived" ELSE "UnreliableMessageReceived"
    IN  sendToClient(sendToClient(st, self, NetworkEvent(type, id, msg)),
                     self, NetworkEvent(type, id, msg))

forwardMessage(st, self, senderPeer, msg, reliable) ==
    LET id == findPeerConnectionId(st, self, senderPeer)
        type == IF reliable THEN "ReliableMessageReceived" ELSE "UnreliableMessageReceived"
    IN  sendToClient(st, self, NetworkEvent(type, id, msg))

\* variant: the looked-up session is used without the test; calling a
\* method of undefined is a TypeError
sendData_Unchecked(st, self, id, msg, reliable) ==
    IF id \in DOMAIN st.mConnections[self]
    THEN forwardMessage(st, st.mConnections[self][id], self, msg, reliable)
    ELSE [st EXCEPT !.threw = TRUE]

sendData(st, self, id, msg, reliable) ==
    IF id \in DOMAIN st.mConnections[self]
    THEN forwardMessage(st, st.mConnections[self][id], self, msg, reliable)
    ELSE st

\* ------------------------------------------------------------- cleanup
\* for (const v in this.mConnections): keys in ascending order, a key that
\* was deleted before its turn is skipped
RECURSIVE disconnectEach(_, _, _)
disconnectEach(st, self, keys) ==
    IF keys = {}
    THEN st
    ELSE LET v == Min(keys)
             st1 == IF v \in DOMAIN st.mConnections[self]
                    THEN disconnect(st, self, v)
                    ELSE st
         IN  disconnectEach(st1, self, keys \ {v})

\* ws.close: an open socket starts its closing handshake
wsClose(st, p) ==
    IF st.readyState[p] = "OPEN" THEN [st EXCEPT !.readyState[p] = "CLOSING"] ELSE st

RECURSIVE cleanup(_, _)
RECURSIVE protocolCleanup(_, _)

\* BinaryWebsocketProtocol.dispose
dispose(st, p) == protocolCleanup(st, p)

\* variant: the state guard comes after the controller call
cleanup_LateGuard(st, self) ==
    LET st0 == onCleanup(st, self)
    IN  IF st.mState[self] \in {"Disconnecting", "Disconnected"}
        THEN st0
        ELSE LET st1 == [st0 EXCEPT !.mState[self] = "Disconnecting"]
                 st3 == disconnectEach(st1, self, DOMAIN st1.mConnections[self])
                 st4 == IF st3.mOwnAddress[self] # Null THEN stopListen(st3, self) ELSE st3
                 st5 == IF st4.threw THEN st4 ELSE dispose(st4, self)
             IN  IF st5.threw THEN st5 ELSE [st5 EXCEPT !.mState[self] = "Disconnected"]

\* variant: the state is left at Disconnecting
cleanup_NoFinalState(st, self) ==
    IF st.mState[self] \in {"Disconnecting", "Disconnected"}
    THEN st
    ELSE LET st1 == [st EXCEPT !.mState[self] = "Disconnecting"]
             st2 == onCleanup(st1, self)
             st3 == disconnectEach(st2, self, DOMAIN st2.mConnections[self])
             st4 == IF st3.mOwnAddress[self] # Null THEN stopListen(st3, self) ELSE st3
         IN  IF st4.threw THEN st4 ELSE dispose(st4, self)

\* SignalingPeer.cleanup
cleanup(st, self) ==
    IF st.mState[self] \in {"Disconnecting", "Disconnected"}
    THEN st
    ELSE LET st1 == [st EXCEPT !.mState[self] = "Disconnecting"]
             st2 == onCleanup(st1, self)
             st3 == disconnectEach(st2, self, DOMAIN st2.mConnections[self])
             st4 == IF st3.mOwnAddress[self] # Null THEN stopListen(st3, self) ELSE st3
             st5 == IF st4.threw THEN st4 ELSE dispose(st4, self)
         IN  IF st5.threw THEN st5 ELSE [st5 EXCEPT !.mState[self] = "Disconnected"]

onNetworkClose(st, self) == cleanup(st, self)

\* BinaryWebsocketProtocol.cleanup
protocolCleanup(st, p) ==
    IF st.mIsDisposed[p]
    THEN st
    ELSE LET st1 == [st EXCEPT !.mPingInterval[p] = FALSE]
             st2 == onNetworkClose(
                        [st1 EXCEPT !.protocolCalls =
                            Append(@, [fn |-> "onNetworkClosed", on |-> p, code |-> 0])], p)
             st3 == IF st2.readyState[p] # "CLOSED"
                    THEN wsClose(
                        [st2 EXCEPT !.protocolCalls =
                            Append(@, [fn |-> "ws.close", on |-> p, code |-> 1000])], p)
                    ELSE st2
         IN  IF st2.threw THEN st2 ELSE [st3 EXCEPT !.mIsDisposed[p] = TRUE]

\* ------------------------------------------------------- inbound frames
\* NetworkEvent.fromByteArray: fails when the buffer is too short for the
\* declared tag, the tag is not 0, 1 or 2, or the declared length exceeds the
\* bytes that follow
TypeName(n) ==
    IF \E k \in DOMAIN NetEventType : NetEventType[k] = n
    THEN CHOOSE k \in DOMAIN NetEventType : NetEventType[k] = n
    ELSE "Invalid"

PayloadBytes(data) == IF data = Null THEN 0 ELSE 2 * Len(data)

fromByteArray(msg) ==
    LET b == msg.bytes
        failed == [ok |-> FALSE, evt |-> NetworkEvent("Invalid", INVALID, Null)]
    IN  IF Len(b) < 4
        THEN failed
        ELSE LET u == b[3] + 256 * b[4]
                 id == IF u >= 32768 THEN u - 65536 ELSE u
             IN  IF b[2] = 0
                 THEN [ok |-> TRUE, evt |-> NetworkEvent(TypeName(b[1]), id, Null)]
                 ELSE IF b[2] \notin {1, 2} \/ Len(b) < 8
                      THEN failed
                      ELSE LET L == b[5] + 256 * b[6] + 65536 * b[7] + 16777216 * b[8]
                           IN  IF L > PayloadBytes(msg.data)
                               THEN failed
                               ELSE [ok |-> TRUE,
                                     evt |-> NetworkEvent(TypeName(b[1]), id, msg.data)]

sendVersion(st, p) ==
    internalSend(st, p, Frame(<< NetEventType.MetaVersion, PROTOCOL_VERSION >>, Null))

sendHeartbeat(st, p) ==
    internalSend(st, p, Frame(<< NetEventType.MetaHeartbeat >>, Null))

\* SignalingPeer.onNetworkEvent
onNetworkEvent(st, self, evt) ==
    CASE evt.Type = "NewConnection" -> connect(st, self, evt.Data, evt.ConnectionId)
      [] evt.Type = "Disconnected" -> disconnect(st, self, evt.ConnectionId)
      [] evt.Type = "ServerInitialized" -> listen(st, self, evt.Data)
      [] evt.Type = "ServerClosed" -> stopListen(st, self)
      [] evt.Type = "ReliableMessageReceived" ->
            sendData(st, self, evt.ConnectionId, evt.Data, TRUE)
      [] evt.Type = "UnreliableMessageReceived" ->
            sendData(st, self, evt.ConnectionId, evt.Data, FALSE)
      [] OTHER -> st

handleIncomingEvent(st, p, evt) ==
    onNetworkEvent(Did(st, ProtocolCall("onNetworkEvent", p, 0)), p, evt)

\* variant: the heartbeat is handed to the peer session as well
processMessage_MetaPassedOn(st, p, msg) ==
    IF msg.bytes # <<>> /\ msg.bytes[1] = NetEventType.MetaVersion
    THEN sendVersion([st EXCEPT !.mRemoteProtocolVersion[p] =
                                    IF Len(msg.bytes) >= 2 THEN msg.bytes[2] ELSE Undefined], p)
    ELSE IF msg.bytes # <<>> /\ msg.bytes[1] = NetEventType.MetaHeartbeat
         THEN handleIncomingEvent(sendHeartbeat(st, p), p,
                                  NetworkEvent("MetaHeartbeat", INVALID, Null))
         ELSE LET r == fromByteArray(msg)
              IN  IF r.ok
                  THEN handleIncomingEvent(st, p, r.evt)
                  ELSE [st EXCEPT !.threw = TRUE]

\* an exception of the decoder or of the handler leaves processMessage
processMessage(st, p, msg) ==
    IF msg.bytes # <<>> /\ msg.bytes[1] = NetEventType.MetaVersion
    THEN sendVersion([st EXCEPT !.mRemoteProtocolVersion[p] =
                                    IF Len(msg.bytes) >= 2 THEN msg.bytes[2] ELSE Undefined], p)
    ELSE IF msg.bytes # <<>> /\ msg.bytes[1] = NetEventType.MetaHeartbeat
         THEN sendHeartbeat(st, p)
         ELSE LET r == fromByteArray(msg)
              IN  IF r.ok
                  THEN handleIncomingEvent(st, p, r.evt)
                  ELSE [st EXCEPT !.threw = TRUE]

\* try { processMessage } catch { log }: the exception ends here
onMessage(st, p, inmessage) == processMessage(st, p, inmessage)

\* ---------------------------------------------------------------- actions
CommitSessions(st, op) ==
    /\ ops < MaxOps
    /\ ops' = ops + 1
    /\ \A p \in Peers : Len(st.assigned[p]) <= MaxIncoming
    /\ mState' = st.mState
    /\ mConnections' = st.mConnections
    /\ mNextIncomingConnectionId' = st.mNextIncomingConnectionId
    /\ mOwnAddress' = st.mOwnAddress
    /\ readyState' = st.readyState
    /\ mIsDisposed' = st.mIsDisposed
    /\ mPingInterval' = st.mPingInterval
    /\ mPongReceived' = st.mPongReceived
    /\ sent' = st.sent
    /\ onCleanupCalls' = st.onCleanupCalls
    /\ assigned' = st.assigned
    /\ calls' = st.calls
    /\ threw' = st.threw
    /\ protocolCalls' = st.protocolCalls
    /\ written' = st.written
    /\ metaWritten' = st.metaWritten
    /\ mRemoteProtocolVersion' = st.mRemoteProtocolVersion
    /\ closeFrameReceived' = st.closeFrameReceived
    /\ returned' = st.returned
    /\ pairing' = st.pairing
    /\ delivered' = st.delivered
    /\ tracing' = st.tracing
    /\ lastOp' = op

\* a handler of the pool on its own and of its sessions
Commit(st, op) ==
    /\ CommitSessions(st, op)
    /\ mPoolConnections' = st.mPoolConnections
    /\ mListeners' = st.mListeners
    /\ mAddressSharing' = st.mAddressSharing
    /\ UNCHANGED <<adminToken, userTokens, mPool, mController, request>>

Op(name, p, address, id) == [name |-> name, peer |-> p, address |-> address, id |-> id]

Created(p) == mState[p] # "Uninitialized"
\* a frame of the client can arrive until the socket is closed
\* (also after the session's cleanup, while the socket is still closing),
\* but not after the client's close frame
CanReceive(p) == Created(p) /\ readyState[p] # "CLOSED" /\ ~closeFrameReceived[p]

\* the upgrade request of a socket: its userToken query parameter (Null:
\* none) and its pathname
Request(userToken, appPath) == [userToken |-> userToken, appPath |-> appPath]
\* no socket yet
NoRequest == Request(Null, Null)

\* the apps of the configuration, by path; the second with address sharing
Apps == {"/callapp", "/conferenceapp"}
AppConfig(path) == [path |-> path, address_sharing |-> path = "/conferenceapp"]

\* new DefaultPeerPool(app, logger)
DefaultPeerPool(config) ==
    [mConnections |-> <<>>, mListeners |-> [a \in AllAddrs |-> <<>>],
     mAddressSharing |-> config.address_sharing]

\* everything but the two configuration choices
InitSessions ==
    /\ mState = [p \in Peers |-> "Uninitialized"]
    /\ mConnections = [p \in Peers |-> EmptyMap]
    /\ mNextIncomingConnectionId = [p \in Peers |-> FirstIncomingId]
    /\ mOwnAddress = [p \in Peers |-> Null]
    /\ mPoolConnections = <<>>
    /\ mListeners = [a \in AllAddrs |-> <<>>]
    /\ readyState = [p \in Peers |-> "CLOSED"]
    /\ mIsDisposed = [p \in Peers |-> FALSE]
    /\ mPingInterval = [p \in Peers |-> FALSE]
    /\ mPongReceived = [p \in Peers |-> TRUE]
    /\ sent = [p \in Peers |-> <<>>]
    /\ onCleanupCalls = [p \in Peers |-> 0]
    /\ assigned = [p \in Peers |-> <<>>]
    /\ calls = <<>>
    /\ threw = FALSE
    /\ protocolCalls = <<>>
    /\ written = [p \in Peers |-> <<>>]
    /\ metaWritten = [p \in Peers |-> <<>>]
    /\ mRemoteProtocolVersion = [p \in Peers |-> 1]
    /\ closeFrameReceived = [p \in Peers |-> FALSE]
    /\ returned = FALSE
    /\ pairing = [p \in Peers |-> EmptyMap]
    /\ delivered = [p \in Peers |-> <<>>]
    /\ tracing = FALSE
    /\ userTokens = {}
    /\ mPool = [k \in Apps |-> DefaultPeerPool(AppConfig(k))]
    /\ mController = [p \in Peers |-> Null]
    /\ request = [p \in Peers |-> NoRequest]
    /\ ops = 0
    /\ lastOp = Op("init", 0, Null, INVALID)

\* one pool with its sessions, with or without address sharing; no admin token
Init ==
    /\ InitSessions
    /\ mAddressSharing \in BOOLEAN
    /\ adminToken = Null

\* PeerPool.addPeerFromProtocol on a fresh socket: protocol constructor,
\* session constructor, addPeer.  Sessions are numbered in creation order.
addPeerFromProtocol(p) ==
    /\ mState[p] = "Uninitialized"
    /\ \A q \in Peers : q < p => Created(q)
    /\ Commit([Cur EXCEPT !.readyState[p] = "OPEN",
                          !.mPongReceived[p] = TRUE,
                          !.mPingInterval[p] = TRUE,
                          !.mState[p] = "Connected",
                          !.mPoolConnections = Append(@, p)],
              Op("addPeer", p, Null, INVALID))

onNewConnection(p, address, id) ==
    /\ CanReceive(p)
    /\ Commit(connect(Cur, p, address, id), Op("NewConnection", p, address, id))

onDisconnected(p, id) ==
    /\ CanReceive(p)
    /\ Commit(disconnect(Cur, p, id), Op("Disconnected", p, Null, id))

onServerInitialized(p, address) ==
    /\ CanReceive(p)
    /\ Commit(listen(Cur, p, address), Op("ServerInitialized", p, address, INVALID))

onServerClosed(p) ==
    /\ CanReceive(p)
    /\ Commit(stopListen(Cur, p), Op("ServerClosed", p, Null, INVALID))

onMessageReceived(p, id, msg, reliable) ==
    /\ CanReceive(p)
    /\ Commit(sendData(Cur, p, id, msg, reliable),
              Op(IF reliable THEN "ReliableMessageReceived" ELSE "UnreliableMessageReceived",
                 p, msg, id))

\* ws 'close' event
onClose(p) ==
    /\ Created(p)
    /\ readyState[p] # "CLOSED"
    /\ Commit(protocolCleanup([Cur EXCEPT !.readyState[p] = "CLOSED"], p),
              Op("onClose", p, Null, INVALID))

\* ws 'error' event; the socket is open or already closing when it fires
onError(p) ==
    /\ Created(p)
    /\ readyState[p] # "CLOSED"
    /\ \E rs \in {readyState[p], "CLOSING"} :
          Commit(protocolCleanup([Cur EXCEPT !.readyState[p] = rs], p),
                 Op("onError", p, Null, INVALID))

\* ws 'pong' event
onPong(p) ==
    /\ Created(p)
    /\ readyState[p] # "CLOSED"
    /\ ~mPongReceived[p]
    /\ Commit([Cur EXCEPT !.mPongReceived[p] = TRUE], Op("pong", p, Null, INVALID))

\* variant: the flag is not cleared when the ping goes out
doPing_NoFlagClear(p) ==
    /\ mPingInterval[p]
    /\ readyState[p] = "OPEN"
    /\ IF ~mPongReceived[p]
       THEN Commit(protocolCleanup(Cur, p), Op("onNoPongTimeout", p, Null, INVALID))
       ELSE Commit(Did(Cur, ProtocolCall("ws.ping", p, 0)), Op("ping", p, Null, INVALID))

\* heartbeat tick
doPing(p) ==
    /\ mPingInterval[p]
    /\ readyState[p] = "OPEN"
    /\ IF ~mPongReceived[p]
       THEN Commit(protocolCleanup(Cur, p), Op("onNoPongTimeout", p, Null, INVALID))
       ELSE Commit(Did([Cur EXCEPT !.mPongReceived[p] = FALSE],
                       ProtocolCall("ws.ping", p, 0)),
                   Op("ping", p, Null, INVALID))

\* Protocol.dispose called from outside the session
disposeProtocol(p) ==
    /\ Created(p)
    /\ Commit(dispose(Cur, p), Op("dispose", p, Null, INVALID))

Next ==
    \/ \E p \in Peers : addPeerFromProtocol(p)
    \/ \E p \in Peers, a \in Addrs, i \in ClientIds : onNewConnection(p, a, i)
    \/ \E p \in Peers, i \in ClientIds \cup (FirstIncomingId..(FirstIncomingId + MaxIncoming - 1)) :
          onDisconnected(p, i)
    \/ \E p \in Peers, a \in ListenAddrs : onServerInitialized(p, a)
    \/ \E p \in Peers : onServerClosed(p)
    \/ \E p \in Peers, i \in ClientIds \cup (FirstIncomingId..(FirstIncomingId + MaxIncoming - 1)),
          m \in Payloads, r \in BOOLEAN : onMessageReceived(p, i, m, r)
    \/ \E p \in Peers : onClose(p)
    \/ \E p \in Peers : onError(p)
    \/ \E p \in TickPeers : onPong(p)
    \/ \E p \in TickPeers : doPing(p)
    \/ \E p \in Peers : disposeProtocol(p)

Spec == Init /\ [][Next]_vars

\* ------------------------------------------- the pool driven on its own
\* DefaultPeerPool.isAddressAvailable is public: a caller asks for one address
isAddressAvailableCall(address) ==
    Commit([Cur EXCEPT !.returned = isAddressAvailable(Cur, address)],
           Op("isAddressAvailable", 0, address, INVALID))

\* PeerPool.removeConnection and DefaultPeerPool.onCleanup are public: a
\* caller hands in a session the list does not hold (never added, or removed
\* by its cleanup)
removeConnectionCall(client) ==
    /\ IndexOf(mPoolConnections, client) = 0
    /\ Commit(removeConnection(Cur, client), Op("removeConnection", client, Null, INVALID))

onCleanupCall(client) ==
    /\ IndexOf(mPoolConnections, client) = 0
    /\ Commit(onCleanup(Cur, client), Op("onCleanupCall", client, Null, INVALID))

\* sessions that come, listen, stop listening and go, and availability
\* queries and removals of unknown sessions in between, over the boundary
\* addresses
NextPool ==
    \/ \E p \in Peers : addPeerFromProtocol(p)
    \/ \E p \in Peers, a \in PoolAddrs : onServerInitialized(p, a)
    \/ \E p \in Peers : onServerClosed(p)
    \/ \E p \in Peers : onClose(p)
    \/ \E a \in PoolAddrs : isAddressAvailableCall(a)
    \/ \E p \in Peers : removeConnectionCall(p)
    \/ \E p \in Peers : onCleanupCall(p)

SpecPool == Init /\ [][NextPool]_vars

\* ------------------------------------------------ traffic between pairings
\* The relay after sessions 1, 2 and 3 were admitted, session 1 started to
\* listen on "a" and sessions 2 and 3 each sent NewConnection(1, "a"): the
\* state Spec reaches by these six handlers, with the handler count and the
\* per-handler records cleared; from here on the socket writes are recorded.
InitMsg ==
    /\ mState = [p \in Peers |-> IF p <= 3 THEN "Connected" ELSE "Uninitialized"]
    /\ mConnections = [p \in Peers |->
                         IF p = 1 THEN (16384 :> 2) @@ (16385 :> 3)
                         ELSE IF p <= 3 THEN (1 :> 1) ELSE EmptyMap]
    /\ mNextIncomingConnectionId = [p \in Peers |-> IF p = 1 THEN 16386 ELSE FirstIncomingId]
    /\ mOwnAddress = [p \in Peers |-> IF p = 1 THEN "a" ELSE Null]
    /\ mPoolConnections = <<1, 2, 3>>
    /\ mListeners = [a \in AllAddrs |-> IF a = "a" THEN <<1>> ELSE <<>>]
    /\ mAddressSharing = FALSE
    /\ readyState = [p \in Peers |-> IF p <= 3 THEN "OPEN" ELSE "CLOSED"]
    /\ mIsDisposed = [p \in Peers |-> FALSE]
    /\ mPingInterval = [p \in Peers |-> p <= 3]
    /\ mPongReceived = [p \in Peers |-> TRUE]
    /\ sent = [p \in Peers |-> <<>>]
    /\ onCleanupCalls = [p \in Peers |-> 0]
    /\ assigned = [p \in Peers |-> IF p = 1 THEN <<16384, 16385>> ELSE <<>>]
    /\ calls = <<>>
    /\ threw = FALSE
    /\ protocolCalls = <<>>
    /\ written = [p \in Peers |-> <<>>]
    /\ metaWritten = [p \in Peers |-> <<>>]
    /\ mRemoteProtocolVersion = [p \in Peers |-> 1]
    /\ closeFrameReceived = [p \in Peers |-> FALSE]
    /\ returned = FALSE
    /\ pairing = [p \in Peers |->
                    IF p = 1 THEN (16384 :> 1) @@ (16385 :> 1)
                    ELSE IF p = 2 THEN (1 :> 16384)
                    ELSE IF p = 3 THEN (1 :> 16385) ELSE EmptyMap]
    /\ delivered = [p \in Peers |-> <<>>]
    /\ tracing = TRUE
    /\ adminToken = Null
    /\ userTokens = {}
    /\ mPool = [k \in Apps |-> DefaultPeerPool(AppConfig(k))]
    /\ mController = [p \in Peers |-> Null]
    /\ request = [p \in Peers |-> NoRequest]
    /\ ops = 0
    /\ lastOp = Op("init", 0, Null, INVALID)

\* messages and disconnects of the three clients, in any interleaving;
\* session 3 sends its messages unreliable, the others reliable
NextMsg ==
    \/ \E p \in Peers, i \in ClientIds \cup (FirstIncomingId..(FirstIncomingId + MaxIncoming - 1)),
          m \in Payloads : onMessageReceived(p, i, m, p # 3)
    \/ \E p \in Peers, i \in ClientIds \cup (FirstIncomingId..(FirstIncomingId + MaxIncoming - 1)) :
          onDisconnected(p, i)

SpecMsg == InitMsg /\ [][NextMsg]_vars

\* ------------------------------------------ a listener late in its life
\* the largest value of a signed 16-bit ConnectionId
Int16Max == 32767

\* The relay after sessions 1, 2 and 3 were admitted, session 1 started to
\* listen on "a" and accepted 16382 incoming connections, all of which were
\* disconnected again: its next incoming id is 32766.  The handler count and
\* the per-handler records are cleared and the ids handed out so far are
\* left out of the record.
InitIds ==
    /\ mState = [p \in Peers |-> IF p <= 3 THEN "Connected" ELSE "Uninitialized"]
    /\ mConnections = [p \in Peers |-> EmptyMap]
    /\ mNextIncomingConnectionId =
          [p \in Peers |-> IF p = 1 THEN Int16Max - 1 ELSE FirstIncomingId]
    /\ mOwnAddress = [p \in Peers |-> IF p = 1 THEN "a" ELSE Null]
    /\ mPoolConnections = <<1, 2, 3>>
    /\ mListeners = [a \in AllAddrs |-> IF a = "a" THEN <<1>> ELSE <<>>]
    /\ mAddressSharing = FALSE
    /\ readyState = [p \in Peers |-> IF p <= 3 THEN "OPEN" ELSE "CLOSED"]
    /\ mIsDisposed = [p \in Peers |-> FALSE]
    /\ mPingInterval = [p \in Peers |-> p <= 3]
    /\ mPongReceived = [p \in Peers |-> TRUE]
    /\ sent = [p \in Peers |-> <<>>]
    /\ onCleanupCalls = [p \in Peers |-> 0]
    /\ assigned = [p \in Peers |-> <<>>]
    /\ calls = <<>>
    /\ threw = FALSE
    /\ protocolCalls = <<>>
    /\ written = [p \in Peers |-> <<>>]
    /\ metaWritten = [p \in Peers |-> <<>>]
    /\ mRemoteProtocolVersion = [p \in Peers |-> 1]
    /\ closeFrameReceived = [p \in Peers |-> FALSE]
    /\ returned = FALSE
    /\ pairing = [p \in Peers |-> EmptyMap]
    /\ delivered = [p \in Peers |-> <<>>]
    /\ tracing = FALSE
    /\ adminToken = Null
    /\ userTokens = {}
    /\ mPool = [k \in Apps |-> DefaultPeerPool(AppConfig(k))]
    /\ mController = [p \in Peers |-> Null]
    /\ request = [p \in Peers |-> NoRequest]
    /\ ops = 0
    /\ lastOp = Op("init", 0, Null, INVALID)

\* clients connect to the listener and pairings are disconnected again
NextIds ==
    \/ \E p \in Peers, a \in Addrs, i \in ClientIds : onNewConnection(p, a, i)
    \/ \E p \in Peers, i \in ClientIds \cup ((Int16Max - 1)..(Int16Max - 1 + MaxIncoming)) :
          onDisconnected(p, i)

SpecIds == InitIds /\ [][NextIds]_vars

\* ------------------------------------- two requests to the same listener
\* The relay after sessions 1 and 2 were admitted, session 1 started to
\* listen on "a" and session 2 sent NewConnection(1, "a") and then a second
\* NewConnection(second, "a"), with the same id or with another one: the
\* state Spec reaches by these five handlers, with the handler count and the
\* per-handler records cleared.
InitPairs ==
    \E second \in ClientIds :
    /\ mState = [p \in Peers |-> IF p <= 2 THEN "Connected" ELSE "Uninitialized"]
    /\ mConnections = [p \in Peers |->
                         IF p = 1 THEN (16384 :> 2) @@ (16385 :> 2)
                         ELSE IF p = 2 THEN (1 :> 1) @@ (second :> 1) ELSE EmptyMap]
    /\ mNextIncomingConnectionId = [p \in Peers |-> IF p = 1 THEN 16386 ELSE FirstIncomingId]
    /\ mOwnAddress = [p \in Peers |-> IF p = 1 THEN "a" ELSE Null]
    /\ mPoolConnections = <<1, 2>>
    /\ mListeners = [a \in AllAddrs |-> IF a = "a" THEN <<1>> ELSE <<>>]
    /\ mAddressSharing = FALSE
    /\ readyState = [p \in Peers |-> IF p <= 2 THEN "OPEN" ELSE "CLOSED"]
    /\ mIsDisposed = [p \in Peers |-> FALSE]
    /\ mPingInterval = [p \in Peers |-> p <= 2]
    /\ mPongReceived = [p \in Peers |-> TRUE]
    /\ sent = [p \in Peers |-> <<>>]
    /\ onCleanupCalls = [p \in Peers |-> 0]
    /\ assigned = [p \in Peers |-> IF p = 1 THEN <<16384, 16385>> ELSE <<>>]
    /\ calls = <<>>
    /\ threw = FALSE
    /\ protocolCalls = <<>>
    /\ written = [p \in Peers |-> <<>>]
    /\ metaWritten = [p \in Peers |-> <<>>]
    /\ mRemoteProtocolVersion = [p \in Peers |-> 1]
    /\ closeFrameReceived = [p \in Peers |-> FALSE]
    /\ returned = FALSE
    /\ pairing = [p \in Peers |->
                    IF p = 1 THEN (16384 :> 1) @@ (16385 :> second)
                    ELSE IF p = 2 THEN (second :> 16385) @@ (1 :> 16384) ELSE EmptyMap]
    /\ delivered = [p \in Peers |-> <<>>]
    /\ tracing = FALSE
    /\ adminToken = Null
    /\ userTokens = {}
    /\ mPool = [k \in Apps |-> DefaultPeerPool(AppConfig(k))]
    /\ mController = [p \in Peers |-> Null]
    /\ request = [p \in Peers |-> NoRequest]
    /\ ops = 0
    /\ lastOp = Op("init", 0, Null, INVALID)

\* messages and disconnects of the two clients, and their sockets closing
NextPairs ==
    \/ \E p \in Peers, i \in ClientIds \cup (FirstIncomingId..(FirstIncomingId + MaxIncoming - 1)),
          m \in Payloads, r \in BOOLEAN : onMessageReceived(p, i, m, r)
    \/ \E p \in Peers, i \in ClientIds \cup (FirstIncomingId..(FirstIncomingId + MaxIncoming - 1)) :
          onDisconnected(p, i)
    \/ \E p \in Peers : onClose(p)

SpecPairs == InitPairs /\ [][NextPairs]_vars

\* ------------------------------------------------ the protocol session
\* frames a client puts on its socket: a version frame, a heartbeat, three
\* frames the decoder refuses (one byte only; payload tag 9; a string of
\* declared length 6 with 2 bytes following) and four well-formed events
InFrames ==
    << Frame(<< 103, 2 >>, Null),
       Frame(<< 104 >>, Null),
       Frame(<< 5 >>, Null),
       Frame(<< 7, 9, 1, 0 >>, Null),
       Frame(<< 5, 1, 1, 0, 6, 0, 0, 0 >>, "a"),
       toByteArray(NetworkEvent("ServerInitialized", INVALID, "a")),
       toByteArray(NetworkEvent("NewConnection", 1, "a")),
       toByteArray(NetworkEvent("ReliableMessageReceived", 1, "x")),
       toByteArray(NetworkEvent("Disconnected", 16384, Null)) >>

\* ws 'message' event with the k-th of these frames
onMessageFrame(p, k) ==
    /\ CanReceive(p)
    /\ Commit(onMessage(Cur, p, InFrames[k]), Op("onMessage", p, Null, k))

\* the client's close frame arrives: the socket is closing from then on, its
\* 'close' event follows later
onCloseFrame(p) ==
    /\ Created(p)
    /\ readyState[p] = "OPEN"
    /\ Commit([Cur EXCEPT !.readyState[p] = "CLOSING", !.closeFrameReceived[p] = TRUE],
              Op("closeFrame", p, Null, INVALID))

NextProtocol ==
    \/ \E p \in Peers : addPeerFromProtocol(p)
    \/ \E p \in Peers, k \in 1..Len(InFrames) : onMessageFrame(p, k)
    \/ \E p \in Peers : onCloseFrame(p)
    \/ \E p \in Peers : onClose(p)
    \/ \E p \in TickPeers : onError(p)
    \/ \E p \in TickPeers : onPong(p)
    \/ \E p \in TickPeers : doPing(p)
    \/ \E p \in Peers : disposeProtocol(p)

SpecProtocol == Init /\ [][NextProtocol]_vars

\* --------------------------------------------------- the server front end
\* config.adminToken when one is configured
AdminToken == "secret"
\* the authorization header of an admin request
Authorizations == {AdminToken, "wrong"}
\* user tokens the admin registers
RegisteredTokens == {"t1"}
\* the requests sockets arrive with: the token the admin registers (or has
\* not registered yet, or that has expired) on each path, a token nobody
\* registers, and no token
SocketRequests ==
    {Request("t1", "/callapp"), Request("t1", "/conferenceapp"),
     Request("t1", "/unknown"), Request("constructor", "/callapp"),
     Request(Null, "/conferenceapp"), Request(Null, "/unknown")}

\* TokenManager.isActive
isActive == adminToken # Null /\ adminToken # ""

\* userTokens is a plain object ({}): besides its own keys a property read
\* finds what Object.prototype defines
ObjectPrototype ==
    {"constructor", "__proto__", "hasOwnProperty", "isPrototypeOf",
     "propertyIsEnumerable", "toLocaleString", "toString", "valueOf",
     "__defineGetter__", "__defineSetter__", "__lookupGetter__", "__lookupSetter__"}
\* the property key of a value: undefined reads the key "undefined"
PropertyKey(v) == IF v = Null THEN "undefined" ELSE v
\* if (this.userTokens[token]): own values are Timeout objects, inherited
\* ones functions and Object.prototype itself, all truthy
Truthy(own, key) == key \in own \/ key \in ObjectPrototype

\* TokenManager.checkUserToken
checkUserToken(req) ==
    IF ~isActive THEN TRUE ELSE Truthy(userTokens, PropertyKey(req.userToken))

\* the three variables of the pool on its own, as one pool of the dictionary
PoolOf(st) ==
    [mConnections |-> st.mPoolConnections, mListeners |-> st.mListeners,
     mAddressSharing |-> st.mAddressSharing]
\* the state record a handler works on when `this.mController` is pool k
InPool(k) ==
    [Cur EXCEPT !.mPoolConnections = mPool[k].mConnections,
                !.mListeners = mPool[k].mListeners,
                !.mAddressSharing = mPool[k].mAddressSharing]

\* a handler of the server, leaving the dictionary of pools behind
CommitServer(st, pools, op) ==
    /\ ops < MaxServerOps
    /\ CommitSessions(st, op)
    /\ mPool' = pools
    /\ UNCHANGED <<mPoolConnections, mListeners, mAddressSharing, adminToken>>

\* TokenManager.processRequest with a valid UserTokenRequest as body
processRequest(authorization, userToken) ==
    /\ userTokens' = IF authorization = adminToken
                     THEN userTokens \cup {userToken}
                     ELSE userTokens
    /\ CommitServer(Cur, mPool, Op("processRequest", 0, userToken, INVALID))
    /\ UNCHANGED <<mController, request>>

\* the timer processUserTokenRequest has set fires
tokenTimeout(userToken) ==
    /\ userToken \in userTokens
    /\ userTokens' = userTokens \ {userToken}
    /\ CommitServer(Cur, mPool, Op("tokenTimeout", 0, userToken, INVALID))
    /\ UNCHANGED <<mController, request>>

\* WebsocketNetworkServer.onConnection and PeerPool.addPeerFromProtocol:
\* protocol session and peer session on socket p, the session added to the
\* pool the record holds
onConnection(st, p) ==
    [st EXCEPT !.readyState[p] = "OPEN",
               !.mPongReceived[p] = TRUE,
               !.mPingInterval[p] = TRUE,
               !.mState[p] = "Connected",
               !.mPoolConnections = Append(@, p)]

\* socket.close(code) on a socket no protocol session was made for
socketClose(st, p, code) ==
    [st EXCEPT !.readyState[p] = "CLOSING",
               !.protocolCalls = Append(@, [fn |-> "ws.close", on |-> p, code |-> code])]

\* variant: every known path is served by the first pool
connection_OnePool(p, req) ==
    /\ request[p] = NoRequest
    /\ \A q \in Peers : q < p => request[q] # NoRequest
    /\ request' = [request EXCEPT ![p] = req]
    /\ UNCHANGED userTokens
    /\ IF ~checkUserToken(req)
       THEN /\ CommitServer(socketClose(Cur, p, 1008), mPool,
                            Op("connection", p, req.appPath, INVALID))
            /\ UNCHANGED mController
       ELSE IF req.appPath \in DOMAIN mPool
            THEN LET st == onConnection(InPool("/callapp"), p)
                 IN  /\ CommitServer(st, [mPool EXCEPT !["/callapp"] = PoolOf(st)],
                                     Op("connection", p, req.appPath, INVALID))
                     /\ mController' = [mController EXCEPT ![p] = "/callapp"]
            ELSE /\ CommitServer(socketClose(Cur, p, Undefined), mPool,
                                 Op("connection", p, req.appPath, INVALID))
                 /\ UNCHANGED mController

\* variant: the path is looked up before the token is checked
connection_RouteFirst(p, req) ==
    /\ request[p] = NoRequest
    /\ \A q \in Peers : q < p => request[q] # NoRequest
    /\ request' = [request EXCEPT ![p] = req]
    /\ UNCHANGED userTokens
    /\ IF req.appPath \notin DOMAIN mPool
       THEN /\ CommitServer(socketClose(Cur, p, Undefined), mPool,
                            Op("connection", p, req.appPath, INVALID))
            /\ UNCHANGED mController
       ELSE IF ~checkUserToken(req)
            THEN /\ CommitServer(socketClose(Cur, p, 1008), mPool,
                                 Op("connection", p, req.appPath, INVALID))
                 /\ UNCHANGED mController
            ELSE LET st == onConnection(InPool(req.appPath), p)
                 IN  /\ CommitServer(st, [mPool EXCEPT ![req.appPath] = PoolOf(st)],
                                     Op("connection", p, req.appPath, INVALID))
                     /\ mController' = [mController EXCEPT ![p] = req.appPath]

\* the 'connection' handler of addSocketServer.  Sockets are numbered in
\* arrival order.
connection(p, req) ==
    /\ request[p] = NoRequest
    /\ \A q \in Peers : q < p => request[q] # NoRequest
    /\ request' = [request EXCEPT ![p] = req]
    /\ UNCHANGED userTokens
    /\ IF ~checkUserToken(req)
       THEN /\ CommitServer(socketClose(Cur, p, 1008), mPool,
                            Op("connection", p, req.appPath, INVALID))
            /\ UNCHANGED mController
       ELSE IF req.appPath \in DOMAIN mPool
            THEN LET st == onConnection(InPool(req.appPath), p)
                 IN  /\ CommitServer(st, [mPool EXCEPT ![req.appPath] = PoolOf(st)],
                                     Op("connection", p, req.appPath, INVALID))
                     /\ mController' = [mController EXCEPT ![p] = req.appPath]
            ELSE /\ CommitServer(socketClose(Cur, p, Undefined), mPool,
                                 Op("connection", p, req.appPath, INVALID))
                 /\ UNCHANGED mController

\* what the clients of the server's sessions send
ServerEvents ==
    {NetworkEvent("ServerInitialized", INVALID, "a"),
     NetworkEvent("NewConnection", 1, "a"),
     NetworkEvent("ServerClosed", INVALID, Null)}

\* an event of the client of a session the server made
onClientEvent(p, evt) ==
    /\ CanReceive(p)
    /\ mController[p] # Null
    /\ LET st == onNetworkEvent(InPool(mController[p]), p, evt)
       IN  CommitServer(st, [mPool EXCEPT ![mController[p]] = PoolOf(st)],
                        Op(evt.Type, p, evt.Data, evt.ConnectionId))
    /\ UNCHANGED <<userTokens, mController, request>>

\* ws 'close' event on a session the server made
onSocketClose(p) ==
    /\ Created(p)
    /\ mController[p] # Null
    /\ readyState[p] # "CLOSED"
    /\ LET st == protocolCleanup([InPool(mController[p]) EXCEPT !.readyState[p] = "CLOSED"], p)
       IN  CommitServer(st, [mPool EXCEPT ![mController[p]] = PoolOf(st)],
                        Op("onClose", p, Null, INVALID))
    /\ UNCHANGED <<userTokens, mController, request>>

\* with or without an admin token
InitServer ==
    /\ InitSessions
    /\ mAddressSharing = FALSE
    /\ adminToken \in {Null, AdminToken}

NextServer ==
    \/ \E a \in Authorizations, t \in RegisteredTokens : processRequest(a, t)
    \/ \E t \in RegisteredTokens : tokenTimeout(t)
    \/ \E p \in Peers, r \in SocketRequests : connection(p, r)
    \/ \E p \in Peers, e \in ServerEvents : onClientEvent(p, e)
    \/ \E p \in Peers : onSocketClose(p)

SpecServer == InitServer /\ [][NextServer]_vars

\* ================================================================ claims
CleanupTriggers == {"onClose", "onError", "onNoPongTimeout", "dispose"}

\* the step is a cleanup trigger on A that finds A Connected
RunsCleanup(A) ==
    /\ lastOp'.name \in CleanupTriggers
    /\ lastOp'.peer = A
    /\ mState[A] = "Connected"

\* the step is a cleanup trigger on A that finds A already cleaned up
RepeatsCleanup(A) ==
    /\ lastOp'.name \in CleanupTriggers
    /\ lastOp'.peer = A
    /\ mState[A] \in {"Disconnecting", "Disconnected"}

IdsTo(conns, A, B) == {i \in DOMAIN conns[A] : conns[A][i] = B}
Has(seq, e) == \E k \in 1..Len(seq) : seq[k] = e
HasType(seq, type) == \E k \in 1..Len(seq) : seq[k].Type = type
DisconnectedEvt(i) == NetworkEvent("Disconnected", i, Null)
NewConnectionEvt(i) == NetworkEvent("NewConnection", i, Null)

\* C1: pair symmetry.  For all sessions A, B: if A's pair map has an entry
\* for B then B's pair map has exactly one entry for A (stated for every
\* ordered pair, so it covers both directions).
C1_PairSymmetry ==
    \A A \in Peers, B \in Peers :
        IdsTo(mConnections, A, B) # {} => Cardinality(IdsTo(mConnections, B, A)) = 1

\* C2: cleanup propagation.  When a Connected session A is cleaned up, every
\* other Connected session B is sent Disconnected(j) exactly once for each id
\* j its pair map held for A, and no Disconnected for any other id.
C2_CleanupPropagation ==
    [][\A A \in Peers : RunsCleanup(A) =>
          \A B \in Peers \ {A} : mState[B] = "Connected" =>
              /\ \A j \in IdsTo(mConnections, B, A) : Count(sent'[B], DisconnectedEvt(j)) = 1
              /\ \A k \in 1..Len(sent'[B]) :
                    sent'[B][k].Type = "Disconnected" =>
                        sent'[B][k].ConnectionId \in IdsTo(mConnections, B, A)]_vars

\* C3: cleanup post-condition.  When the cleanup of A completes, A's pair map
\* is empty, no other pair map contains A, A is in no listeners list, A's
\* ownAddress is unset, A is not in the session list and A's protocol is
\* disposed.
C3_CleanupPostCondition ==
    [][\A A \in Peers : (RunsCleanup(A) /\ mState'[A] = "Disconnected") =>
          /\ DOMAIN mConnections'[A] = {}
          /\ \A B \in Peers : IdsTo(mConnections', B, A) = {}
          /\ \A a \in Addrs : Count(mListeners'[a], A) = 0
          /\ mOwnAddress'[A] = Null
          /\ Count(mPoolConnections', A) = 0
          /\ mIsDisposed'[A]]_vars

\* C4: address exclusivity.  With sharing off every listeners list has at
\* most one entry; in any case no session is in a listeners list twice.
C4_AddressExclusivity ==
    /\ ~mAddressSharing => \A a \in Addrs : Len(mListeners[a]) <= 1
    /\ \A a \in Addrs, p \in Peers : Count(mListeners[a], p) <= 1

\* a session re-listened (ServerClosed, then ServerInitialized) on a shared
\* address where the other listener already was paired with it
C4_Witness ==
    /\ mAddressSharing
    /\ \E p \in Peers : \E q \in Peers \ {p}, a \in Addrs :
          /\ lastOp = Op("ServerInitialized", p, a, INVALID)
          /\ Len(sent[p]) >= 2
          /\ sent[p][1].Type = "ServerClosed"
          /\ sent[p][2] = NetworkEvent("ServerInitialized", INVALID, a)
          /\ Count(mListeners[a], p) = 1
          /\ Count(mListeners[a], q) = 1
          /\ Cardinality(IdsTo(mConnections, p, q)) = 2

\* C5: state gating.  Only a Connected session hands events to its client:
\* whoever was sent something by the last handler is Connected.
C5_StateGating ==
    \A p \in Peers : sent[p] # <<>> => mState[p] = "Connected"

\* a paired session was cleaned up: the other side was sent Disconnected,
\* its own client nothing
C5_Witness ==
    \E A \in Peers : \E B \in Peers \ {A} :
        /\ lastOp.name \in CleanupTriggers
        /\ lastOp.peer = A
        /\ mState[A] = "Disconnected"
        /\ sent[A] = <<>>
        /\ HasType(sent[B], "Disconnected")

\* C6 as claimed: during its own cleanup a session with pairings and an own
\* address sends its client Disconnected(i) for each pairing i and
\* ServerClosed.
C6_OwnCleanupNotifiesClient ==
    [][\A A \in Peers :
          (RunsCleanup(A) /\ DOMAIN mConnections[A] # {} /\ mOwnAddress[A] # Null) =>
              /\ \A i \in DOMAIN mConnections[A] : Has(sent'[A], DisconnectedEvt(i))
              /\ HasType(sent'[A], "ServerClosed")]_vars

\* C6 amended: sends are permitted only while Connected; during its own
\* cleanup (state Disconnecting, then Disconnected) a session with pairings
\* and an own address sends its client nothing, while the pool is still told
\* to free the address.
C6_OwnCleanupIsSilent ==
    [][\A A \in Peers :
          (RunsCleanup(A) /\ DOMAIN mConnections[A] # {} /\ mOwnAddress[A] # Null) =>
              /\ sent'[A] = <<>>
              /\ Has(calls', Call("onStopListening", A, 0, mOwnAddress[A], INVALID))]_vars

\* a listening, paired session was cleaned up
C6_Witness ==
    \E A \in Peers : \E B \in Peers \ {A}, a \in Addrs :
        /\ lastOp.name \in CleanupTriggers
        /\ lastOp.peer = A
        /\ Has(calls, Call("onStopListening", A, 0, a, INVALID))
        /\ HasType(sent[B], "Disconnected")
        /\ sent[A] = <<>>
        /\ mState[A] = "Disconnected"

\* C7: a handler that finds a session Disconnected sends that session's
\* client nothing, whatever it calls on the session.
C7_DisconnectedIsSilent ==
    [][\A p \in Peers : mState[p] = "Disconnected" => sent'[p] = <<>>]_vars

\* acceptListening was called on a Disconnected session
C7_Witness ==
    \E p \in Peers, a \in Addrs :
        /\ mState[p] = "Disconnected"
        /\ onCleanupCalls[p] = 1
        /\ lastOp = Op("ServerInitialized", p, a, INVALID)
        /\ Has(calls, Call("acceptListening", p, 0, a, INVALID))
        /\ mOwnAddress[p] = a
        /\ sent[p] = <<>>

\* C8: idempotent cleanup.  controller.onCleanup is called at most once per
\* session (also when dispose re-enters onNetworkClosed), and a cleanup
\* trigger on a session that is already Disconnecting or Disconnected makes
\* no call, changes no pair map, listeners list or session list and sends
\* nothing.
C8_IdempotentCleanup ==
    [][/\ \A p \in Peers : onCleanupCalls'[p] <= 1
       /\ \A A \in Peers : RepeatsCleanup(A) =>
             /\ calls' = <<>>
             /\ onCleanupCalls' = onCleanupCalls
             /\ mConnections' = mConnections
             /\ mListeners' = mListeners
             /\ mOwnAddress' = mOwnAddress
             /\ mPoolConnections' = mPoolConnections
             /\ mState' = mState
             /\ \A q \in Peers : sent'[q] = <<>>]_vars

\* a second trigger arrived at a session that was cleaned up before
C8_Witness ==
    \E A \in Peers :
        /\ lastOp.name \in CleanupTriggers
        /\ lastOp.peer = A
        /\ mState[A] = "Disconnected"
        /\ onCleanupCalls[A] = 1
        /\ calls = <<>>

\* C9: id allocation.  The ids a session assigns to incoming pairings start
\* at 16384 and are strictly increasing, so none is assigned twice.
C9_IdAllocation ==
    \A p \in Peers :
        /\ assigned[p] # <<>> => assigned[p][1] = 16384
        /\ \A i \in 1..Len(assigned[p]), j \in 1..Len(assigned[p]) :
              i < j => assigned[p][i] < assigned[p][j]

\* a second incoming pairing was accepted after the first was disconnected
C9_Witness ==
    \E p \in Peers :
        /\ Len(assigned[p]) = 2
        /\ assigned[p][1] \notin DOMAIN mConnections[p]
        /\ assigned[p][2] \in DOMAIN mConnections[p]

\* C10: connection brokering.  A NewConnection(id, a) of S that finds exactly
\* one listener L # S on a makes the pool call L.acceptIncomingConnection(S)
\* and then S.acceptOutgoingConnection(L, id); L's map then maps a newly
\* assigned id to S and S's map maps id to L; a Connected L is sent
\* NewConnection(new id) and a Connected S is sent NewConnection(id).
C10_Brokering ==
    [][\A S \in Peers : \A L \in Peers \ {S}, a \in Addrs, id \in ClientIds :
          (lastOp' = Op("NewConnection", S, a, id) /\ mListeners[a] = <<L>>) =>
              LET fresh == mNextIncomingConnectionId[L]
              IN  /\ calls' = << Call("acceptIncomingConnection", L, S, Null, INVALID),
                                 Call("acceptOutgoingConnection", S, L, Null, id) >>
                  /\ ~Has(assigned[L], fresh)
                  /\ fresh >= FirstIncomingId
                  /\ fresh \in DOMAIN mConnections'[L] /\ mConnections'[L][fresh] = S
                  /\ id \in DOMAIN mConnections'[S] /\ mConnections'[S][id] = L
                  /\ mState[L] = "Connected" => sent'[L] = << NewConnectionEvt(fresh) >>
                  /\ mState[S] = "Connected" => sent'[S] = << NewConnectionEvt(id) >>]_vars

\* the scenario of the spec: P2 connects with id 1 to the address P1 listens on
C10_Witness ==
    \E S \in Peers : \E L \in Peers \ {S}, a \in Addrs, id \in ClientIds :
        /\ lastOp = Op("NewConnection", S, a, id)
        /\ calls = << Call("acceptIncomingConnection", L, S, Null, INVALID),
                      Call("acceptOutgoingConnection", S, L, Null, id) >>
        /\ mState[S] = "Connected" /\ mState[L] = "Connected"
        /\ sent[L] = << NewConnectionEvt(16384) >>
        /\ sent[S] = << NewConnectionEvt(id) >>
        /\ mConnections[L][16384] = S
        /\ mConnections[S][id] = L

ConnectionFailedEvt(i) == NetworkEvent("ConnectionFailed", i, Null)

\* C11: self-connect is denied.  A NewConnection(id, a) of a Connected session
\* S whose address a has S itself as the only listener is answered with
\* ConnectionFailed(id) alone and creates no pair-map entry; so no session is
\* ever paired with itself.
C11_SelfConnectDenied ==
    [][\A S \in Peers, a \in Addrs, id \in ClientIds :
          (lastOp' = Op("NewConnection", S, a, id) /\ mListeners[a] = <<S>>
             /\ mState[S] = "Connected") =>
              /\ sent'[S] = << ConnectionFailedEvt(id) >>
              /\ mConnections' = mConnections
              /\ IdsTo(mConnections', S, S) = {}]_vars

AnswersTo(cs, S, fns) == {k \in 1..Len(cs) : cs[k].on = S /\ cs[k].fn \in fns}

\* C13: exactly one answer per request.  Handling NewConnection(id, a) of S
\* the pool calls exactly one of S.acceptOutgoingConnection(_, id) and
\* S.denyConnection(a, id); handling ServerInitialized(a) of S exactly one of
\* S.acceptListening(a) and S.denyListening(a).  A Connected S is sent exactly
\* one of NewConnection(id) / ConnectionFailed(id), respectively of
\* ServerInitialized(a) / ServerInitFailed(a).
C13_ExactlyOneAnswer ==
    [][/\ \A S \in Peers, a \in Addrs, id \in ClientIds :
             lastOp' = Op("NewConnection", S, a, id) =>
                 /\ Cardinality(AnswersTo(calls', S,
                        {"acceptOutgoingConnection", "denyConnection"})) = 1
                 /\ \A k \in AnswersTo(calls', S,
                        {"acceptOutgoingConnection", "denyConnection"}) :
                        /\ calls'[k].id = id
                        /\ calls'[k].fn = "denyConnection" => calls'[k].address = a
                 /\ mState[S] = "Connected" =>
                        Count(sent'[S], NewConnectionEvt(id))
                          + Count(sent'[S], ConnectionFailedEvt(id)) = 1
       /\ \A S \in Peers : \A a \in DOMAIN mListeners :
             lastOp' = Op("ServerInitialized", S, a, INVALID) =>
                 /\ Cardinality(AnswersTo(calls', S,
                        {"acceptListening", "denyListening"})) = 1
                 /\ \A k \in AnswersTo(calls', S, {"acceptListening", "denyListening"}) :
                        calls'[k].address = a
                 /\ mState[S] = "Connected" =>
                        Count(sent'[S], NetworkEvent("ServerInitialized", INVALID, a))
                          + Count(sent'[S], NetworkEvent("ServerInitFailed", INVALID, a)) = 1]_vars

ServerInitFailedEvt(a) == NetworkEvent("ServerInitFailed", INVALID, a)
ServerClosedEvt == NetworkEvent("ServerClosed", INVALID, Null)
Without(seq, e) == SelectSeq(seq, LAMBDA x : x # e)

\* the request of S for a meets a refusal: a is longer than 256, or sharing
\* is off and another session listens on a
Refused(S, a) ==
    \/ Len(a) > 256
    \/ ~mAddressSharing /\ Without(mListeners[a], S) # <<>>

\* C14 as claimed: a listen request of any session that is denied sends a
\* Connected requester ServerInitFailed(-1, a) and leaves the listeners map
\* and the session list exactly as they were before the request.
C14_DeniedListenLeavesPoolUnchanged ==
    [][\A S \in Peers, a \in ListenAddrs :
          (lastOp' = Op("ServerInitialized", S, a, INVALID) /\ Refused(S, a)) =>
              /\ mState[S] = "Connected" => Has(sent'[S], ServerInitFailedEvt(a))
              /\ mListeners' = mListeners
              /\ mPoolConnections' = mPoolConnections]_vars

\* C14 amended: the denied request is answered by denyListening alone; a
\* Connected requester is sent ServerInitFailed(-1, a), nobody else anything;
\* the session list and the pair maps stay as they were.  If the requester
\* was not listening the listeners map stays as it was; if it was, it has
\* first stopped listening: it is removed from the list of its old address,
\* its own address is unset and its client is sent ServerClosed before
\* ServerInitFailed.
C14_DeniedListen ==
    [][\A S \in Peers, a \in ListenAddrs :
          (lastOp' = Op("ServerInitialized", S, a, INVALID) /\ Refused(S, a)) =>
              LET old == mOwnAddress[S]
              IN  /\ Has(calls', Call("denyListening", S, 0, a, INVALID))
                  /\ ~Has(calls', Call("acceptListening", S, 0, a, INVALID))
                  /\ mPoolConnections' = mPoolConnections
                  /\ mConnections' = mConnections
                  /\ mState' = mState
                  /\ \A q \in Peers \ {S} : sent'[q] = <<>>
                  /\ mOwnAddress' = [mOwnAddress EXCEPT ![S] = Null]
                  /\ old = Null =>
                        /\ mListeners' = mListeners
                        /\ mState[S] = "Connected" => sent'[S] = << ServerInitFailedEvt(a) >>
                  /\ old # Null =>
                        /\ mListeners' = [mListeners EXCEPT ![old] = Without(@, S)]
                        /\ mState[S] = "Connected" =>
                              sent'[S] = << ServerClosedEvt, ServerInitFailedEvt(a) >>]_vars

\* a listening session asked for the 257-character address
C14_Witness ==
    \E S \in Peers, old \in Addrs :
        /\ lastOp = Op("ServerInitialized", S, tooLongAddress, INVALID)
        /\ Len(tooLongAddress) = 257
        /\ calls = << Call("onStopListening", S, 0, old, INVALID),
                      Call("denyListening", S, 0, tooLongAddress, INVALID) >>
        /\ sent[S] = << ServerClosedEvt, ServerInitFailedEvt(tooLongAddress) >>
        /\ mOwnAddress[S] = Null
        /\ \A a \in AllAddrs : Count(mListeners[a], S) = 0

ServerInitializedEvt(a) == NetworkEvent("ServerInitialized", INVALID, a)

\* the calls of acceptJoin for the listeners pre found by S: for each O in
\* turn O.acceptIncomingConnection(S), then S.acceptIncomingConnection(O)
JoinCalls(pre, S) ==
    [k \in 1..(2 * Len(pre)) |->
        IF k % 2 = 1
        THEN Call("acceptIncomingConnection", pre[(k + 1) \div 2], S, Null, INVALID)
        ELSE Call("acceptIncomingConnection", S, pre[k \div 2], Null, INVALID)]

\* C16: shared listen cross-connect.  With sharing on, when S starts to listen
\* on a (after it has stopped listening, if it did), the pool calls
\* S.acceptListening(a) and then, for each session O that listened on a
\* already and in their order, O.acceptIncomingConnection(S) before
\* S.acceptIncomingConnection(O), and nothing else.  S's pair map gains one
\* entry per such O under S's next ids, each O's gains one entry for S under
\* O's next id, no other pair map changes.  A Connected S is sent
\* ServerInitialized(-1, a) and then one NewConnection per O with those ids, a
\* Connected O one NewConnection with its id, everybody else nothing.
C16_SharedListenCrossConnect ==
    [][\A S \in Peers, a \in Addrs :
          (lastOp' = Op("ServerInitialized", S, a, INVALID) /\ mAddressSharing) =>
              LET pre == Without(mListeners[a], S)
                  n == Len(pre)
                  first == mNextIncomingConnectionId[S]
                  stop == IF mOwnAddress[S] # Null
                          THEN << Call("onStopListening", S, 0, mOwnAddress[S], INVALID) >>
                          ELSE <<>>
                  closed == IF mOwnAddress[S] # Null THEN << ServerClosedEvt >> ELSE <<>>
              IN  /\ calls' = stop \o << Call("acceptListening", S, 0, a, INVALID) >>
                                   \o JoinCalls(pre, S)
                  /\ mListeners'[a] = Append(pre, S)
                  /\ DOMAIN mConnections'[S] =
                        DOMAIN mConnections[S] \cup (first..(first + n - 1))
                  /\ \A k \in 1..n : mConnections'[S][first + k - 1] = pre[k]
                  /\ \A i \in DOMAIN mConnections[S] \ (first..(first + n - 1)) :
                        mConnections'[S][i] = mConnections[S][i]
                  /\ mNextIncomingConnectionId'[S] = first + n
                  /\ mState[S] = "Connected" =>
                        sent'[S] = closed \o << ServerInitializedEvt(a) >>
                                     \o [k \in 1..n |-> NewConnectionEvt(first + k - 1)]
                  /\ \A O \in Peers \ {S} :
                        IF Has(pre, O)
                        THEN /\ Count(pre, O) = 1
                             /\ mConnections'[O] =
                                   Put(mConnections[O], mNextIncomingConnectionId[O], S)
                             /\ mNextIncomingConnectionId'[O] = mNextIncomingConnectionId[O] + 1
                             /\ mState[O] = "Connected" =>
                                   sent'[O] = << NewConnectionEvt(mNextIncomingConnectionId[O]) >>
                        ELSE /\ mConnections'[O] = mConnections[O]
                             /\ sent'[O] = <<>>]_vars

\* scenario S3 with a third session: it joins an address two sessions share
C16_Witness ==
    \E S \in Peers, a \in Addrs :
        /\ mAddressSharing
        /\ lastOp = Op("ServerInitialized", S, a, INVALID)
        /\ Len(mListeners[a]) = 3
        /\ mListeners[a][3] = S
        /\ sent[S] = << ServerInitializedEvt(a), NewConnectionEvt(16384), NewConnectionEvt(16385) >>
        /\ \A O \in Peers \ {S} : sent[O] = << NewConnectionEvt(16385) >>
        /\ mConnections[S][16384] = mListeners[a][1]
        /\ mConnections[S][16385] = mListeners[a][2]

\* everything but the per-handler records is as it was
NothingChanged ==
    /\ mState' = mState
    /\ mConnections' = mConnections
    /\ mNextIncomingConnectionId' = mNextIncomingConnectionId
    /\ mOwnAddress' = mOwnAddress
    /\ mPoolConnections' = mPoolConnections
    /\ mListeners' = mListeners
    /\ readyState' = readyState
    /\ mIsDisposed' = mIsDisposed

\* C17: symmetric disconnect.  When a Connected A handles Disconnected(i) of
\* its client and its pair map maps i to a Connected B that holds A, for
\* the same pairing, under the id j, A's client is sent Disconnected(i) and
\* B's Disconnected(j),
\* nobody else anything; i leaves A's pair map and j leaves B's, no other
\* entry of any pair map changes and every session keeps its state.  If i is
\* not in A's pair map nothing changes and nothing is sent.
C17_SymmetricDisconnect ==
    [][\A A \in Peers, i \in ClientIds \cup (FirstIncomingId..(FirstIncomingId + MaxIncoming)) :
          lastOp' = Op("Disconnected", A, Null, i) =>
              /\ i \notin DOMAIN mConnections[A] =>
                    /\ NothingChanged
                    /\ \A q \in Peers : sent'[q] = <<>>
                    /\ ~threw'
              /\ \A B \in Peers \ {A} : \A j \in DOMAIN mConnections[B] :
                    (/\ mState[A] = "Connected"
                     /\ i \in DOMAIN mConnections[A]
                     /\ mConnections[A][i] = B
                     /\ pairing[A][i] = j
                     /\ mConnections[B][j] = A
                     /\ mState[B] = "Connected") =>
                        /\ sent'[A] = << DisconnectedEvt(i) >>
                        /\ sent'[B] = << DisconnectedEvt(j) >>
                        /\ \A q \in Peers \ {A, B} : sent'[q] = <<>>
                        /\ mConnections' = [mConnections EXCEPT ![A] = Del(@, i),
                                                                ![B] = Del(@, j)]
                        /\ mState' = mState
                        /\ mListeners' = mListeners
                        /\ mOwnAddress' = mOwnAddress
                        /\ mPoolConnections' = mPoolConnections
                        /\ ~threw']_vars

MessageTypes == {"ReliableMessageReceived", "UnreliableMessageReceived"}
AnyIds == ClientIds \cup (FirstIncomingId..(FirstIncomingId + MaxIncoming))

\* C18: message forwarding.  When A handles Reliable/UnreliableMessageReceived
\* (i, data) of its client and its pair map maps i to a Connected session B,
\* B's client is sent exactly one event: of the same type, with the same
\* payload and with an id under which B's pair map references A.  A's client
\* and everybody else is sent nothing, no pair map changes and nothing is
\* thrown.
C18_MessageForwarding ==
    [][\A A \in Peers, i \in AnyIds, data \in Payloads, type \in MessageTypes :
          (lastOp' = Op(type, A, data, i) /\ i \in DOMAIN mConnections[A]) =>
              LET B == mConnections[A][i]
              IN  (B # A /\ mState[B] = "Connected") =>
                      /\ \E j \in IdsTo(mConnections, B, A) :
                            sent'[B] = << NetworkEvent(type, j, data) >>
                      /\ \A q \in Peers \ {B} : sent'[q] = <<>>
                      /\ mConnections' = mConnections
                      /\ ~threw']_vars

\* C19: a message of A's client for an id that is not in A's pair map is
\* dropped: nobody is sent anything, nothing changes and nothing is thrown.
C19_UnknownIdDropped ==
    [][(/\ lastOp'.name \in MessageTypes
        /\ lastOp'.peer \in Peers
        /\ lastOp'.id \notin DOMAIN mConnections[lastOp'.peer]) =>
              /\ \A q \in Peers : sent'[q] = <<>>
              /\ NothingChanged
              /\ calls' = <<>>
              /\ ~threw']_vars

\* a Connected session sent a message on an id it was assigned once and that
\* was disconnected since
C19_Witness ==
    \E A \in Peers, i \in AnyIds, data \in Payloads, type \in MessageTypes :
        /\ lastOp = Op(type, A, data, i)
        /\ mState[A] = "Connected"
        /\ Has(assigned[A], i)
        /\ i \notin DOMAIN mConnections[A]
        /\ \A q \in Peers : sent[q] = <<>>
        /\ ~threw

\* C20: per-pairing ordering.  The messages written to a session's socket are
\* only ever extended at the end, and only by the handler that received the
\* message: by exactly one event, for a message that a session paired with B
\* sent on an id that maps to B, of the same type and payload and under an
\* id B holds for the sender.  So what B's client gets on a pairing is in the
\* order of reception and holds no message twice, whatever other traffic is
\* handled in between.
C20_PerPairingOrdering ==
    [][\A B \in Peers :
          \/ delivered'[B] = delivered[B]
          \/ \E A \in Peers, i \in AnyIds, data \in Payloads, type \in MessageTypes :
                /\ lastOp' = Op(type, A, data, i)
                /\ i \in DOMAIN mConnections[A]
                /\ mConnections[A][i] = B
                /\ \E j \in IdsTo(mConnections, B, A) :
                      delivered'[B] = Append(delivered[B],
                          [seq |-> ops', evt |-> NetworkEvent(type, j, data)])]_vars

\* session 1 got a message of session 2, one of session 3 and another one of
\* session 2, while session 2 got one of session 1 in between
C20_Witness ==
    /\ Len(delivered[1]) = 3
    /\ delivered[1][1].evt.ConnectionId = 16384
    /\ delivered[1][2].evt.ConnectionId = 16385
    /\ delivered[1][3].evt.ConnectionId = 16384
    /\ Len(delivered[2]) = 1
    /\ delivered[1][1].seq < delivered[1][2].seq
    /\ delivered[1][2].seq < delivered[2][1].seq
    /\ delivered[2][1].seq < delivered[1][3].seq

StartedCleanup(p) == mState[p] \in {"Disconnecting", "Disconnected"}
Active(st, p) == st[p] = "Connected"

\* C24: session membership.  Between handlers every session that was created
\* and has not started its cleanup is in the session list exactly once, every
\* other session is not in it, and count() is the number of sessions that have
\* not started cleanup; the handler in which a session starts its cleanup
\* takes exactly that session out and so lowers count() by one.
C24_SessionMembership ==
    [][/\ \A p \in Peers :
             Count(mPoolConnections', p) = IF Active(mState', p) THEN 1 ELSE 0
       /\ Len(mPoolConnections') = Cardinality({p \in Peers : Active(mState', p)})
       /\ \A A \in Peers : RunsCleanup(A) =>
             /\ StartedCleanup(A)'
             /\ Len(mPoolConnections') = Len(mPoolConnections) - 1
             /\ mPoolConnections' = Without(mPoolConnections, A)]_vars

\* the first of three sessions was cleaned up and the other two stayed
C24_Witness ==
    /\ lastOp.name \in CleanupTriggers
    /\ lastOp.peer = 1
    /\ onCleanupCalls[1] = 1
    /\ mState[1] = "Disconnected"
    /\ mPoolConnections = <<2, 3>>
    /\ mState[2] = "Connected" /\ mState[3] = "Connected"

\* C25: every cleanup trigger ends in Disconnected.  A transport close, a
\* transport error, a no-pong timeout or a dispose that finds the session
\* Connected leaves it Disconnected when the handler returns, the controller's
\* onCleanup having been called exactly once, whatever its pair map and its
\* own address hold.
C25_TriggerEndsDisconnected ==
    [][\A A \in Peers : RunsCleanup(A) =>
          /\ mState'[A] = "Disconnected"
          /\ onCleanupCalls'[A] = 1
          /\ Count(calls', Call("onCleanup", A, 0, Null, INVALID)) = 1]_vars

\* the heartbeat timed out on a session that listened and was paired
C25_Witness ==
    \E A \in Peers : \E B \in Peers \ {A}, a \in Addrs :
        /\ lastOp = Op("onNoPongTimeout", A, Null, INVALID)
        /\ calls = << Call("onCleanup", A, 0, Null, INVALID),
                      Call("onStopListening", A, 0, a, INVALID) >>
        /\ HasType(sent[B], "Disconnected")
        /\ mState[A] = "Disconnected"
        /\ onCleanupCalls[A] = 1

\* what protocol session p did, by name, during the handler that led to log
Raised(log, p, fn) == {k \in 1..Len(log) : log[k].on = p /\ log[k].fn = fn}
CloseRequests(log, p, code) ==
    {k \in 1..Len(log) : log[k].on = p /\ log[k].fn = "ws.close" /\ log[k].code = code}

\* C27: protocol dispose is single-shot.  Whatever sequence of transport
\* close, transport error, no-pong timeout and dispose() a protocol session
\* sees, the dispose() its peer session calls from inside cleanup included:
\* the first of them raises onNetworkClosed to the listener once and asks
\* the socket to close with code 1000 at most once, and every later one
\* raises nothing and asks for nothing.
C27_DisposeSingleShot ==
    [][\A p \in Peers :
          (lastOp'.name \in CleanupTriggers /\ lastOp'.peer = p) =>
              IF onCleanupCalls[p] = 0
              THEN /\ Cardinality(Raised(protocolCalls', p, "onNetworkClosed")) = 1
                   /\ Cardinality(CloseRequests(protocolCalls', p, 1000)) <= 1
              ELSE /\ Raised(protocolCalls', p, "onNetworkClosed") = {}
                   /\ CloseRequests(protocolCalls', p, 1000) = {}]_vars

\* the frames of InFrames by what the protocol makes of them
MetaFrames == {k \in 1..Len(InFrames) : InFrames[k].bytes[1] \in {103, 104}}
MalformedFrames == {k \in 1..Len(InFrames) : k \notin MetaFrames /\ ~fromByteArray(InFrames[k]).ok}

\* C26: a malformed inbound frame, one the decoder fails on, ends the
\* session: after the handler the protocol has run its cleanup (it raised
\* onNetworkClosed and is disposed), the peer session is Disconnected and out
\* of the session list; nothing of the frame was applied to pair maps,
\* listeners or own addresses.
C26_MalformedFrameCleansUp ==
    [][\A p \in Peers, k \in MalformedFrames :
          (lastOp' = Op("onMessage", p, Null, k) /\ mState[p] = "Connected") =>
              /\ Raised(protocolCalls', p, "onNetworkClosed") # {}
              /\ mIsDisposed'[p]
              /\ mState'[p] = "Disconnected"
              /\ Count(mPoolConnections', p) = 0
              /\ Raised(protocolCalls', p, "onNetworkEvent") = {}]_vars

TickOf(p) == lastOp'.peer = p /\ lastOp'.name \in {"ping", "onNoPongTimeout"}

\* C28: heartbeat liveness.  A tick acts only on an open socket of a protocol
\* that has not been cleaned up.  If no pong arrived since the previous
\* tick's ping it is a timeout: onNetworkClosed is raised, the session's
\* cleanup starts and no ping goes out.  Otherwise the flag is cleared, one
\* ping goes out and nothing is cleaned up.  So a timeout needs a ping that
\* was not answered before the next tick, and a protocol that was cleaned
\* up sees no further ping or timeout.
C28_HeartbeatLiveness ==
    [][\A p \in Peers : TickOf(p) =>
          /\ readyState[p] = "OPEN"
          /\ ~mIsDisposed[p] /\ ~StartedCleanup(p)
          /\ IF ~mPongReceived[p]
             THEN /\ lastOp'.name = "onNoPongTimeout"
                  /\ Raised(protocolCalls', p, "onNetworkClosed") # {}
                  /\ Raised(protocolCalls', p, "ws.ping") = {}
                  /\ StartedCleanup(p)'
                  /\ ~mPingInterval'[p]
             ELSE /\ lastOp'.name = "ping"
                  /\ mPongReceived'[p] = FALSE
                  /\ protocolCalls' = << ProtocolCall("ws.ping", p, 0) >>
                  /\ mState' = mState
                  /\ mIsDisposed' = mIsDisposed
                  /\ calls' = <<>>]_vars

\* a ping was answered, the next one was not, and the tick after it timed out
C28_Witness ==
    \E p \in Peers :
        /\ lastOp = Op("onNoPongTimeout", p, Null, INVALID)
        /\ ops >= 5
        /\ ~mPongReceived[p]
        /\ mState[p] = "Disconnected"
        /\ ~mPingInterval[p]
        /\ Raised(protocolCalls, p, "onNetworkClosed") # {}
        /\ Raised(protocolCalls, p, "ws.ping") = {}

\* the reply of the protocol to the k-th frame, if it is a meta frame
MetaReply(k) ==
    IF InFrames[k].bytes[1] = 103 THEN Frame(<< 103, 2 >>, Null) ELSE Frame(<< 104 >>, Null)

\* C29: meta frames stay in the protocol session.  A MetaVersion or
\* MetaHeartbeat frame is not handed to the peer session's event handler,
\* makes no call between sessions and pool, sends no event to anybody and
\* changes no session or pool state; on an open socket it is answered by
\* exactly one frame, MetaVersion with version 2 respectively MetaHeartbeat.
C29_MetaFramesStayInProtocol ==
    [][\A p \in Peers, k \in MetaFrames :
          lastOp' = Op("onMessage", p, Null, k) =>
              /\ Raised(protocolCalls', p, "onNetworkEvent") = {}
              /\ protocolCalls' = <<>>
              /\ calls' = <<>>
              /\ NothingChanged
              /\ \A q \in Peers : sent'[q] = <<>> /\ written'[q] = <<>>
              /\ \A q \in Peers \ {p} : metaWritten'[q] = <<>>
              /\ readyState[p] = "OPEN" => metaWritten'[p] = << MetaReply(k) >>
              /\ ~threw']_vars

\* a listening, paired session got a version frame and answered it
C29_Witness ==
    \E p \in Peers, k \in MetaFrames :
        /\ lastOp = Op("onMessage", p, Null, k)
        /\ InFrames[k].bytes = << 103, 2 >>
        /\ mRemoteProtocolVersion[p] = 2
        /\ metaWritten[p] = << Frame(<< 103, 2 >>, Null) >>
        /\ mOwnAddress[p] = "a"
        /\ DOMAIN mConnections[p] # {}
        /\ mState[p] = "Connected"

C30_WitnessEvent ==
    \E A \in Peers : \E B \in Peers \ {A} :
        /\ lastOp = Op("onMessage", A, Null, 8)
        /\ mState[B] = "Connected"
        /\ readyState[B] = "CLOSING"
        /\ sent[B] = << NetworkEvent("ReliableMessageReceived", 16384, "x") >>
        /\ written[B] = <<>>

\* ---------------------------------------------------- server front end
\* the step is the 'connection' handler on socket p
Connects(p) == lastOp'.name = "connection" /\ lastOp'.peer = p
\* the handler closed socket p with this code
ClosedWith(p, code) ==
    \E i \in 1..Len(protocolCalls') :
        protocolCalls'[i] = [fn |-> "ws.close", on |-> p, code |-> code]
\* a session was made for socket p
SessionMade(p) == mState'[p] # "Uninitialized"
\* socket p is in none of the pools' session lists
InNoPool(p) ==
    \A k \in DOMAIN mPool' : \A i \in 1..Len(mPool'[k].mConnections) :
        mPool'[k].mConnections[i] # p

\* C22: with an admin token configured a session is made for a socket only
\* if its userToken parameter is a token that was registered and has not
\* expired; every other socket is closed with 1008 and gets no session in
\* any pool.  Without an admin token no socket is refused.
C22_Admission ==
    [][\A p \in Peers : Connects(p) =>
          IF adminToken # Null
          THEN /\ SessionMade(p) => request'[p].userToken \in userTokens
               /\ request'[p].userToken \notin userTokens =>
                     /\ ClosedWith(p, 1008)
                     /\ ~SessionMade(p)
                     /\ InNoPool(p)
          ELSE ~ClosedWith(p, 1008)]_vars

\* C23: an admitted socket whose path names a pool gets exactly one new
\* session, appended to that pool's session list, and no other pool changes;
\* an admitted socket whose path names no pool is closed and gets neither a
\* protocol session nor a peer session; a socket that fails the admission
\* check is closed with 1008 whatever its path, so admission comes first.
C23_UrlRouting ==
    [][\A p \in Peers : Connects(p) =>
          LET req == request'[p]
          IN  IF ~checkUserToken(req)
              THEN /\ protocolCalls' = << [fn |-> "ws.close", on |-> p, code |-> 1008] >>
                   /\ ~SessionMade(p)
                   /\ mPool' = mPool
              ELSE IF req.appPath \in DOMAIN mPool
                   THEN /\ SessionMade(p)
                        /\ mPingInterval'[p]
                        /\ mController'[p] = req.appPath
                        /\ mPool'[req.appPath].mConnections =
                              Append(mPool[req.appPath].mConnections, p)
                        /\ \A k \in DOMAIN mPool \ {req.appPath} : mPool'[k] = mPool[k]
                        /\ protocolCalls' = << >>
                   ELSE /\ Len(protocolCalls') = 1
                        /\ protocolCalls'[1].fn = "ws.close"
                        /\ protocolCalls'[1].on = p
                        /\ ~SessionMade(p)
                        /\ ~mPingInterval'[p]
                        /\ mController'[p] = Null
                        /\ mPool' = mPool]_vars

\* one socket routed to the pool of its path, one with a registered token
\* closed for its unknown path, and the last one, with an unknown path and
\* no token, just closed with 1008
C23_Witness ==
    \E p, q, r \in Peers :
        /\ adminToken # Null
        /\ request[p].appPath \in DOMAIN mPool
        /\ mController[p] = request[p].appPath
        /\ mState[p] = "Connected"
        /\ request[q].appPath = "/unknown"
        /\ request[q].userToken \in userTokens
        /\ mState[q] = "Uninitialized"
        /\ readyState[q] = "CLOSING"
        /\ lastOp = Op("connection", r, "/unknown", INVALID)
        /\ request[r].userToken = Null
        /\ mState[r] = "Uninitialized"
        /\ protocolCalls = << [fn |-> "ws.close", on |-> r, code |-> 1008] >>

\* the application path socket q was admitted on
PathOf(q) == request[q].appPath
\* every session in a pool's session list or listeners lists was admitted on
\* that pool's path, and both ends of a pair-map entry on the same path
PoolsApart ==
    /\ \A k \in DOMAIN mPool : \A i \in 1..Len(mPool[k].mConnections) :
          PathOf(mPool[k].mConnections[i]) = k
    /\ \A k \in DOMAIN mPool : \A a \in DOMAIN mPool[k].mListeners :
          \A i \in 1..Len(mPool[k].mListeners[a]) :
              PathOf(mPool[k].mListeners[a][i]) = k
    /\ \A q \in Peers : \A id \in DOMAIN mConnections[q] :
          PathOf(mConnections[q][id]) = PathOf(q)
\* a handler on socket p leaves every other path's pool as it was, and with
\* it the availability of every address there, and neither changes nor
\* writes to a session admitted on another path
OtherPoolsUntouched ==
    \A p \in Peers : lastOp'.peer = p =>
        /\ \A k \in DOMAIN mPool : k # request'[p].appPath => mPool'[k] = mPool[k]
        /\ \A q \in Peers :
              (PathOf(q) \in DOMAIN mPool /\ PathOf(q) # request'[p].appPath) =>
                  /\ mState'[q] = mState[q]
                  /\ mConnections'[q] = mConnections[q]
                  /\ mOwnAddress'[q] = mOwnAddress[q]
                  /\ written'[q] = << >>
                  /\ sent'[q] = << >>

\* C21: sessions admitted on different paths are in different pools; no
\* pair-map entry and no listeners list crosses pools; a listen or connect
\* in one pool changes neither the availability of an address nor the
\* connections in another pool.
C21_NamespaceIsolation == []PoolsApart /\ [][OtherPoolsUntouched]_vars

\* two sessions admitted on different paths listen on "a", each in its own
\* pool, and the one in the pool without address sharing has just connected
\* to "a": it got its own pool's listener, the other session got nothing
C21_Witness ==
    \E p, q \in Peers :
        /\ PathOf(p) = "/callapp"
        /\ PathOf(q) = "/conferenceapp"
        /\ mPool["/callapp"].mListeners["a"] = << p >>
        /\ mPool["/conferenceapp"].mListeners["a"] = << q >>
        /\ lastOp = Op("NewConnection", p, "a", 1)
        /\ 1 \in DOMAIN mConnections[p]
        /\ mConnections[p][1] = p
        /\ mConnections[q] = EmptyMap

\* ------------------------------------------------- listening and cleanup
\* C31: ServerClosed from the client of a session that has no own address is
\* dropped: no listeners entry changes, nobody is sent anything and the
\* handler ends without an error.
C31_StopListenWithoutAddress ==
    [][\A A \in Peers :
          (lastOp' = Op("ServerClosed", A, Null, INVALID) /\ mOwnAddress[A] = Null) =>
              /\ mListeners' = mListeners
              /\ mOwnAddress' = mOwnAddress
              /\ \A q \in Peers : sent'[q] = <<>>
              /\ ~threw']_vars

\* s is in the listeners list of a
Listens(ls, s, a) == \E k \in 1..Len(ls[a]) : ls[a][k] = s

\* in every state between two handlers a session is in listeners[a] exactly
\* if a is its own address
ListenersMatchOwnAddress ==
    \A s \in Peers : \A a \in DOMAIN mListeners :
        Listens(mListeners, s, a) <=> mOwnAddress[s] = a

\* a session that listens again: the pool is first told to stop listening on
\* the old address, the client's first event is ServerClosed, and the new
\* request is decided on the listeners without the session
RelistenStopsFirst ==
    \A A \in Peers :
        (lastOp'.name = "ServerInitialized" /\ lastOp'.peer = A /\ mOwnAddress[A] # Null) =>
            LET old == mOwnAddress[A]
                a == lastOp'.address
                freed == [mListeners EXCEPT ![old] = Without(@, A)]
            IN  /\ calls' # <<>>
                /\ calls'[1] = Call("onStopListening", A, 0, old, INVALID)
                /\ sent'[A] # <<>>
                /\ sent'[A][1] = ServerClosedEvt
                /\ (mOwnAddress'[A] = a) <=>
                      (Len(a) <= maxAddressLength /\ (freed[a] = <<>> \/ mAddressSharing))
                /\ mOwnAddress'[A] \in {a, Null}

\* C32: listeners and own addresses agree in every state between handlers
\* (so a session is registered under at most one address), and a session
\* that listens again while it is listening is unregistered from its old
\* address first, its client being sent ServerClosed, before the new request
\* is evaluated.
C32_ListenerOwnAddressConsistency ==
    []ListenersMatchOwnAddress /\ [][RelistenStopsFirst]_vars

\* what a client can send on its socket
InboundEvents ==
    {"ServerInitialized", "NewConnection", "ServerClosed", "Disconnected"} \cup MessageTypes

\* C40: an inbound event handled for a session that is Disconnected (its
\* socket still closing) never adds the session to a listeners list, never
\* gives it an own address or a pair-map entry, and gives no session a
\* pair-map entry that references it.
C40_DisconnectedStaysUnregistered ==
    [][\A A \in Peers :
          (mState[A] = "Disconnected" /\ lastOp'.peer = A /\ lastOp'.name \in InboundEvents) =>
              /\ \A a \in DOMAIN mListeners' :
                    Listens(mListeners', A, a) => Listens(mListeners, A, a)
              /\ mOwnAddress'[A] \in {mOwnAddress[A], Null}
              /\ DOMAIN mConnections'[A] \subseteq DOMAIN mConnections[A]
              /\ \A B \in Peers : \A j \in DOMAIN mConnections'[B] :
                    mConnections'[B][j] = A =>
                        (j \in DOMAIN mConnections[B] /\ mConnections[B][j] = A)]_vars

\* the step makes A, which listens on an address, stop: its client's
\* ServerClosed, or a cleanup trigger that finds it Connected
StopsListening(A) ==
    /\ mOwnAddress[A] # Null
    /\ \/ lastOp' = Op("ServerClosed", A, Null, INVALID)
       \/ RunsCleanup(A)

\* C33: a listening session that stops listening (ServerClosed of its
\* client, or cleanup) leaves the listeners list of its address and has no
\* own address any more; the other listeners of the address stay, in order,
\* and every other address is untouched; if it was the last listener the
\* address is available again.  Nobody else is sent ServerClosed, and on a
\* ServerClosed request nobody else is sent anything.
C33_StopListeningFreesAddress ==
    [][\A A \in Peers : StopsListening(A) =>
          LET addr == mOwnAddress[A]
          IN  /\ mListeners' = [mListeners EXCEPT ![addr] = Without(@, A)]
              /\ mOwnAddress' = [mOwnAddress EXCEPT ![A] = Null]
              /\ (\A k \in 1..Len(mListeners[addr]) : mListeners[addr][k] = A) =>
                    /\ mListeners'[addr] = <<>>
                    /\ isAddressAvailable([mListeners |-> mListeners',
                                           mAddressSharing |-> mAddressSharing'], addr)
              /\ \A q \in Peers \ {A} :
                    /\ \A k \in 1..Len(sent'[q]) : sent'[q][k] # ServerClosedEvt
                    /\ lastOp'.name = "ServerClosed" => sent'[q] = <<>>
              /\ ~threw']_vars

\* two sessions shared "a"; the first one stopped listening and was told so,
\* the second one is still registered and was told nothing
C33_Witness ==
    \E A, B \in Peers :
        /\ A # B
        /\ lastOp = Op("ServerClosed", A, Null, INVALID)
        /\ mAddressSharing
        /\ mListeners["a"] = << B >>
        /\ mOwnAddress[A] = Null
        /\ mOwnAddress[B] = "a"
        /\ Has(sent[A], ServerClosedEvt)
        /\ sent[B] = <<>>

\* C34: a cleanup of A leaves every other session B its state, its own
\* address and listener registrations, its next incoming id and every
\* pair-map entry that does not reference A, gives B no new entry, and
\* sends B's client nothing but Disconnected events for ids under which B
\* held A.
C34_CleanupConfined ==
    [][\A A \in Peers : RunsCleanup(A) =>
          \A B \in Peers \ {A} :
              /\ mState'[B] = mState[B]
              /\ mOwnAddress'[B] = mOwnAddress[B]
              /\ \A a \in DOMAIN mListeners :
                    Listens(mListeners', B, a) <=> Listens(mListeners, B, a)
              /\ mNextIncomingConnectionId'[B] = mNextIncomingConnectionId[B]
              /\ DOMAIN mConnections'[B] \subseteq DOMAIN mConnections[B]
              /\ \A j \in DOMAIN mConnections[B] :
                    mConnections[B][j] # A =>
                        (j \in DOMAIN mConnections'[B]
                         /\ mConnections'[B][j] = mConnections[B][j])
              /\ \A k \in 1..Len(sent'[B]) :
                    /\ sent'[B][k].Type = "Disconnected"
                    /\ sent'[B][k].ConnectionId \in DOMAIN mConnections[B]
                    /\ mConnections[B][sent'[B][k].ConnectionId] = A]_vars

\* A was cleaned up; B, which listens, is still Connected, was sent one
\* Disconnected for its pairing with A and still holds an entry that does
\* not reference A
C34_Witness ==
    \E A \in Peers, B \in Peers \ {lastOp.peer} :
        /\ lastOp.name \in CleanupTriggers
        /\ lastOp.peer = A
        /\ mState[A] = "Disconnected"
        /\ mState[B] = "Connected"
        /\ mOwnAddress[B] # Null
        /\ Len(sent[B]) = 1
        /\ sent[B][1].Type = "Disconnected"
        /\ \E j \in DOMAIN mConnections[B] : mConnections[B][j] # A

\* C35: every id acceptIncomingConnection hands out lies in [16384, 32767),
\* however many incoming connections the session has accepted before.
C35_AssignedIdRange ==
    \A p \in Peers : \A k \in 1..Len(assigned[p]) :
        /\ FirstIncomingId <= assigned[p][k]
        /\ assigned[p][k] < Int16Max

\* the relay, in Spec, in the state SpecPairs starts from
PairsStart(second) ==
    /\ mState = [p \in Peers |-> IF p <= 2 THEN "Connected" ELSE "Uninitialized"]
    /\ mConnections = [p \in Peers |->
                         IF p = 1 THEN (16384 :> 2) @@ (16385 :> 2)
                         ELSE IF p = 2 THEN (1 :> 1) @@ (second :> 1) ELSE EmptyMap]
    /\ mNextIncomingConnectionId = [p \in Peers |-> IF p = 1 THEN 16386 ELSE FirstIncomingId]
    /\ mOwnAddress = [p \in Peers |-> IF p = 1 THEN "a" ELSE Null]
    /\ mPoolConnections = <<1, 2>>
    /\ mListeners = [a \in AllAddrs |-> IF a = "a" THEN <<1>> ELSE <<>>]
    /\ mAddressSharing = FALSE
    /\ readyState = [p \in Peers |-> IF p <= 2 THEN "OPEN" ELSE "CLOSED"]
    /\ mIsDisposed = [p \in Peers |-> FALSE]
    /\ mPingInterval = [p \in Peers |-> p <= 2]
    /\ mPongReceived = [p \in Peers |-> TRUE]
    /\ onCleanupCalls = [p \in Peers |-> 0]
    /\ assigned = [p \in Peers |-> IF p = 1 THEN <<16384, 16385>> ELSE <<>>]
    /\ mRemoteProtocolVersion = [p \in Peers |-> 1]
    /\ closeFrameReceived = [p \in Peers |-> FALSE]
    /\ pairing = [p \in Peers |->
                    IF p = 1 THEN (16384 :> 1) @@ (16385 :> second)
                    ELSE IF p = 2 THEN (second :> 16385) @@ (1 :> 16384) ELSE EmptyMap]
    /\ delivered = [p \in Peers |-> <<>>]
    /\ tracing = FALSE
PairsStartSame == PairsStart(1)
PairsStartOther == PairsStart(16384)

\* ---------------------------------------------- claims: pairings and ids
\* A maps i to a session that holds no entry referencing A
Asymmetric(A, i) ==
    /\ i \in DOMAIN mConnections[A]
    /\ IdsTo(mConnections, mConnections[A][i], A) = {}

\* C36: asymmetric pairings are dropped.  When A's pair map maps i to B and
\* B's pair map has no entry referencing A, a Disconnected(i) of A's client
\* changes neither pair map, sends nobody an event and raises no error; a
\* cleanup of A in that situation keeps the entry, leaves B's pair map alone,
\* sends B nothing and still ends with A in state Disconnected.
C36_AsymmetricPairingDropped ==
    [][\A A \in Peers :
         \A i \in DOMAIN mConnections[A] :
           Asymmetric(A, i) =>
             LET B == mConnections[A][i]
             IN  /\ (lastOp' = Op("Disconnected", A, Null, i)) =>
                       /\ mConnections' = mConnections
                       /\ \A q \in Peers : sent'[q] = <<>>
                       /\ ~threw'
                 /\ RunsCleanup(A) =>
                       /\ i \in DOMAIN mConnections'[A]
                       /\ mConnections'[A][i] = B
                       /\ mConnections'[B] = mConnections[B]
                       /\ sent'[B] = <<>>
                       /\ ~threw'
                       /\ mState'[A] = "Disconnected"]_vars

\* session 1 was left with 16385 for session 2, which holds no entry for it
\* any more, and its client's Disconnected(16385) has just been dropped
C36_Witness ==
    /\ lastOp = Op("Disconnected", 1, Null, 16385)
    /\ Asymmetric(1, 16385)
    /\ mConnections[1][16385] = 2
    /\ mState[1] = "Connected"
    /\ mState[2] = "Connected"
    /\ \A q \in Peers : sent[q] = <<>>

\* the same entry has survived the cleanup of session 1
C36_WitnessCleanup ==
    /\ lastOp.name \in CleanupTriggers
    /\ lastOp.peer = 1
    /\ mState[1] = "Disconnected"
    /\ Asymmetric(1, 16385)
    /\ mState[2] = "Connected"
    /\ sent[2] = <<>>

\* C37: removal of an unknown session.  onCleanup or removeConnection for a
\* session that is not in the pool's session list (never added, or already
\* removed) leaves the session list, count() and the listeners map unchanged
\* and raises no error.
C37_RemoveUnknownSession ==
    [][\A p \in Peers :
         /\ lastOp'.name \in {"removeConnection", "onCleanupCall"}
         /\ lastOp'.peer = p
         /\ IndexOf(mPoolConnections, p) = 0
         => /\ mPoolConnections' = mPoolConnections
            /\ Len(mPoolConnections') = Len(mPoolConnections)
            /\ mListeners' = mListeners
            /\ ~threw']_vars

\* onCleanup was called once more for a session its own cleanup had removed,
\* while another session is in the list and listens
C37_Witness ==
    /\ lastOp.name = "onCleanupCall"
    /\ mState[lastOp.peer] = "Disconnected"
    /\ onCleanupCalls[lastOp.peer] = 2
    /\ mPoolConnections # <<>>
    /\ \E a \in AllAddrs : mListeners[a] # <<>>

\* removeConnection was called for a session that was never added
C37_WitnessNeverAdded ==
    /\ lastOp.name = "removeConnection"
    /\ mState[lastOp.peer] = "Uninitialized"
    /\ mPoolConnections # <<>>
    /\ \E a \in AllAddrs : mListeners[a] # <<>>

\* C38: client-chosen ids never clobber a live pairing.  When a session's
\* client issues NewConnection with an id that is already a key of that
\* session's pair map, the existing entry is not replaced: after the handler
\* every pair-map entry that existed before still refers to the session it
\* referred to.
C38_NoClobber ==
    [][\A S \in Peers :
         /\ lastOp'.name = "NewConnection"
         /\ lastOp'.peer = S
         /\ lastOp'.id \in DOMAIN mConnections[S]
         => \A P \in Peers : \A k \in DOMAIN mConnections[P] :
              /\ k \in DOMAIN mConnections'[P]
              /\ mConnections'[P][k] = mConnections[P][k]]_vars

\* A and B share more than one pairing, and A's key i and B's key j belong to
\* the same one of them
SamePairing(A, i, B, j) ==
    /\ A # B
    /\ mState[A] = "Connected"
    /\ mState[B] = "Connected"
    /\ i \in DOMAIN mConnections[A]
    /\ mConnections[A][i] = B
    /\ j \in DOMAIN mConnections[B]
    /\ mConnections[B][j] = A
    /\ i \in DOMAIN pairing[A]
    /\ pairing[A][i] = j
    /\ j \in DOMAIN pairing[B]
    /\ pairing[B][j] = i
    /\ Cardinality(IdsTo(mConnections, A, B)) > 1
    /\ Cardinality(IdsTo(mConnections, B, A)) > 1

\* C39: per-pairing id resolution.  When A and B share more than one pairing,
\* a message of A's client on the pairing i is delivered to B with the id j B
\* was given for that same pairing, and a Disconnected(i) of A's client
\* removes j from B's pair map and reports Disconnected(j) to B's client,
\* not the id of another pairing with A.
C39_PerPairingIdResolution ==
    [][\A A \in Peers, B \in Peers, i \in AnyIds, j \in AnyIds :
         SamePairing(A, i, B, j) =>
           /\ \A data \in Payloads, type \in MessageTypes :
                lastOp' = Op(type, A, data, i) =>
                    sent'[B] = << NetworkEvent(type, j, data) >>
           /\ lastOp' = Op("Disconnected", A, Null, i) =>
                /\ sent'[B] = << DisconnectedEvt(j) >>
                /\ j \notin DOMAIN mConnections'[B]
                /\ IdsTo(mConnections', B, A) = IdsTo(mConnections, B, A) \ {j}]_vars
====
